---------------------------- MODULE Spec2Model ----------------------------
(***************************************************************************)
(* A model of the pixel-data engine of oxipaint: the pixel buffer          *)
(* (src/src/canvas.rs), the diff history (src/src/history.rs) and the      *)
(* Editor that composes them (src/src/editor.rs).                          *)
(*                                                                         *)
(* Conventions.  Rust vectors are TLA+ sequences; a Rust index i (from 0)  *)
(* is the sequence position i + 1.  Option and Result values are records   *)
(* with a "tag" field.  A Rust panic is an outcome of its own: every       *)
(* operator that models a function that can panic returns a "panic" field  *)
(* ("none" when it returned normally), and a panic ends the run.  The f64  *)
(* coordinates of the viewport are modelled by exact rationals.            *)
(***************************************************************************)
EXTENDS Integers, Sequences, FiniteSets, TLC

(***************************************************************************)
(* Bounds of the model.                                                    *)
(***************************************************************************)
\* History.record is not called once the cursor has reached MaxDiffs
MaxDiffs == 2
\* scale_up is not called once the scale is Times(MaxScale)
MaxScale == 2
\* the application and SpecBuffer: no transaction is ended once the cursor
\* of the History has reached MaxStrokes
MaxStrokes == 1
\* SpecView: scale_up is not called once the scale is Times(MaxZoom)
MaxZoom == 3

(***************************************************************************)
(* Option / Result values.                                                 *)
(***************************************************************************)
None == [tag |-> "None"]
Some(v) == [tag |-> "Some", val |-> v]
Unit == [tag |-> "Unit"]
Ok == [tag |-> "Ok"]
Err(e) == [tag |-> "Err", err |-> e]
TransactionInProgress == "TransactionInProgress"
AlreadyAtTimeEdge == "AlreadyAtTimeEdge"
NoPanic == "none"

(***************************************************************************)
(* f64 arithmetic, modelled by exact rationals <<numerator, denominator>>  *)
(* in lowest terms with a positive denominator.                            *)
(***************************************************************************)
Abs(n) == IF n < 0 THEN -n ELSE n

RECURSIVE Gcd(_, _)
Gcd(a, b) == IF b = 0 THEN a ELSE Gcd(b, a % b)

Rat(n, d) ==
    LET g == Gcd(Abs(n), Abs(d))
        s == IF d < 0 THEN -1 ELSE 1
    IN  <<(s * n) \div g, (s * d) \div g>>

FromInt(n) == <<n, 1>>
RAdd(p, q) == Rat(p[1] * q[2] + q[1] * p[2], p[2] * q[2])
RSub(p, q) == Rat(p[1] * q[2] - q[1] * p[2], p[2] * q[2])
RMul(p, q) == Rat(p[1] * q[1], p[2] * q[2])
RDiv(p, q) == Rat(p[1] * q[2], p[2] * q[1])
RLeq(p, q) == p[1] * q[2] <= q[1] * p[2]
RLess(p, q) == p[1] * q[2] < q[1] * p[2]
\* f64::max and f64::min
RMax(p, q) == IF RLess(p, q) THEN q ELSE p
RMin(p, q) == IF RLess(q, p) THEN q ELSE p

(***************************************************************************)
(* geometry.rs: Point and Scale.                                           *)
(***************************************************************************)
Point_new(x, y) == [x |-> x, y |-> y]
\* Scale::Times(n) is the number n
Scale_apply(scale, num) == RMul(num, FromInt(scale))
\* Scale_unapply dividing as integers do, the fraction dropped
Scale_unapply_Truncates(scale, num) == FromInt((num[1] \div num[2]) \div scale)

Scale_unapply(scale, num) == RDiv(num, FromInt(scale))

(***************************************************************************)
(* Colors (sdl2::pixels::Color: r, g, b, a, one byte each).                *)
(***************************************************************************)
Color_RGBA(r, g, b, a) == [r |-> r, g |-> g, b |-> b, a |-> a]
White == Color_RGBA(255, 255, 255, 255)
Black == Color_RGBA(0, 0, 0, 255)
\* a color whose four channels differ, to tell the byte order apart
Amber == Color_RGBA(255, 191, 0, 254)

(***************************************************************************)
(* canvas.rs: the pixel buffer.  A Canvas is [width, height, data].        *)
(***************************************************************************)
BPP == 4

\* &v[left..right]
Slice(v, left, right) == SubSeq(v, left + 1, right)

\* SliceWrite putting the bytes in between those of v
SliceWrite_Inserts(v, left, bytes) ==
    SubSeq(v, 1, left) \o bytes \o SubSeq(v, left + 1, Len(v))

\* v[left..right].copy_from(four bytes), for right = left + 4
SliceWrite(v, left, bytes) ==
    [i \in 1..Len(v) |->
        IF i > left /\ i <= left + Len(bytes) THEN bytes[i - left] ELSE v[i]]

Canvas_new(width, height) ==
    [width |-> width, height |-> height,
     data |-> [i \in 1..(width * height * BPP) |-> 255]]

Canvas_area(c) == c.width * c.height

\* color_from_slice reading the bytes as red, green, blue, alpha
color_from_slice_ReadsRGBA(slice) ==
    Color_RGBA(slice[1], slice[2], slice[3], slice[4])

color_from_slice(slice) ==
    Color_RGBA(slice[3], slice[2], slice[1], slice[4])

\* color_to_slice writing the bytes as red, green, blue, alpha
color_to_slice_WritesRGBA(color) == <<color.r, color.g, color.b, color.a>>

color_to_slice(color) == <<color.b, color.g, color.r, color.a>>

Canvas_calc_offset(c, x, y) ==
    IF x >= c.width \/ y >= c.height
    THEN None
    ELSE Some((y * c.width + x) * BPP)

Canvas_try_get_at(c, x, y) ==
    LET offset == Canvas_calc_offset(c, x, y)
    IN  IF offset.tag = "None"
        THEN None
        ELSE Some(color_from_slice(Slice(c.data, offset.val, offset.val + BPP)))

\* Canvas_try_set_at writing the nearest pixel of the canvas when the
\* coordinates are outside it
Canvas_try_set_at_ClampsCoordinates(c, x, y, color) ==
    LET cx == IF x >= c.width THEN c.width - 1 ELSE x
        cy == IF y >= c.height THEN c.height - 1 ELSE y
    IN  [canvas |-> [c EXCEPT !.data =
                        SliceWrite(c.data, (cy * c.width + cx) * BPP,
                                   color_to_slice(color))],
         ret |-> Some(Unit)]

\* returns the canvas after the call and the call's result
Canvas_try_set_at(c, x, y, color) ==
    LET offset == Canvas_calc_offset(c, x, y)
    IN  IF offset.tag = "None"
        THEN [canvas |-> c, ret |-> None]
        ELSE [canvas |-> [c EXCEPT !.data =
                             SliceWrite(c.data, offset.val, color_to_slice(color))],
              ret |-> Some(Unit)]

Canvas_create_shadow_data(c) == c.data

\* shadow_data.clear(); shadow_data.extend_from_slice(&self.data)
Canvas_update_shadow_data(c, shadow_data) == <<>> \o c.data

\* CompareFrom storing the byte offset of the pixel as the delta's index
RECURSIVE CompareFrom_ByteOffsetIndex(_, _, _)
CompareFrom_ByteOffsetIndex(c, shadow_data, index) ==
    IF index >= Canvas_area(c)
    THEN <<>>
    ELSE LET left == index * BPP
             right == left + BPP
             before == color_from_slice(Slice(shadow_data, left, right))
             after == color_from_slice(Slice(c.data, left, right))
             here == IF before # after
                     THEN <<[index |-> left, before |-> before, after |-> after]>>
                     ELSE <<>>
         IN  here \o CompareFrom_ByteOffsetIndex(c, shadow_data, index + 1)

\* CompareFrom pushing the delta of an index after the deltas of the
\* indices that follow it
RECURSIVE CompareFrom_PushesLast(_, _, _)
CompareFrom_PushesLast(c, shadow_data, index) ==
    IF index >= Canvas_area(c)
    THEN <<>>
    ELSE LET left == index * BPP
             right == left + BPP
             before == color_from_slice(Slice(shadow_data, left, right))
             after == color_from_slice(Slice(c.data, left, right))
             here == IF before # after
                     THEN <<[index |-> index, before |-> before, after |-> after]>>
                     ELSE <<>>
         IN  CompareFrom_PushesLast(c, shadow_data, index + 1) \o here

\* CompareFrom pushing a delta for every pixel, changed or not
RECURSIVE CompareFrom_RecordsEveryPixel(_, _, _)
CompareFrom_RecordsEveryPixel(c, shadow_data, index) ==
    IF index >= Canvas_area(c)
    THEN <<>>
    ELSE LET left == index * BPP
             right == left + BPP
             before == color_from_slice(Slice(shadow_data, left, right))
             after == color_from_slice(Slice(c.data, left, right))
         IN  <<[index |-> index, before |-> before, after |-> after]>>
             \o CompareFrom_RecordsEveryPixel(c, shadow_data, index + 1)

\* the loop body of compare_shadow_data for one index, then the rest
RECURSIVE CompareFrom(_, _, _)
CompareFrom(c, shadow_data, index) ==
    IF index >= Canvas_area(c)
    THEN <<>>
    ELSE LET left == index * BPP
             right == left + BPP
             before == color_from_slice(Slice(shadow_data, left, right))
             after == color_from_slice(Slice(c.data, left, right))
             here == IF before # after
                     THEN <<[index |-> index, before |-> before, after |-> after]>>
                     ELSE <<>>
         IN  here \o CompareFrom(c, shadow_data, index + 1)

\* Canvas_compare_shadow_data recording the first changed pixel only
Canvas_compare_shadow_data_FirstDeltaOnly(c, shadow_data) ==
    IF Canvas_area(c) > 0 /\ Len(shadow_data) < Canvas_area(c) * BPP
    THEN [diff |-> <<>>, panic |-> "slice index out of range"]
    ELSE LET deltas == CompareFrom(c, shadow_data, 0)
         IN  [diff |-> IF deltas = <<>> THEN <<>> ELSE <<deltas[1]>>,
              panic |-> NoPanic]

\* a Diff::Sparse(deltas) is the sequence deltas; slicing a shadow that is
\* shorter than the data panics
Canvas_compare_shadow_data(c, shadow_data) ==
    IF Canvas_area(c) > 0 /\ Len(shadow_data) < Canvas_area(c) * BPP
    THEN [diff |-> <<>>, panic |-> "slice index out of range"]
    ELSE [diff |-> CompareFrom(c, shadow_data, 0), panic |-> NoPanic]

Normal == "Normal"
Reverse == "Reverse"

RECURSIVE ApplyFrom(_, _, _, _)
ApplyFrom(data, deltas, direction, k) ==
    IF k > Len(deltas)
    THEN [data |-> data, panic |-> NoPanic]
    ELSE LET delta == deltas[k]
             left == delta.index * BPP
             right == left + BPP
             color == IF direction = Normal THEN delta.after ELSE delta.before
         IN  IF right > Len(data)
             THEN [data |-> data, panic |-> "slice index out of range"]
             ELSE ApplyFrom(SliceWrite(data, left, color_to_slice(color)),
                            deltas, direction, k + 1)

\* Canvas_apply_diff writing the "after" color in both directions
Canvas_apply_diff_IgnoresDirection(c, diff, direction) ==
    LET r == ApplyFrom(c.data, diff, Normal, 1)
    IN  [canvas |-> [c EXCEPT !.data = r.data], panic |-> r.panic]

\* Canvas_apply_diff exchanging the two colors of a delta whose pixel
\* holds the color to write already
Canvas_apply_diff_Toggles(c, diff, direction) ==
    LET target(d) == IF direction = Normal THEN d.after ELSE d.before
        held(d) == /\ d.index < Canvas_area(c)
                   /\ color_from_slice(Slice(c.data, d.index * BPP,
                                             d.index * BPP + BPP)) = target(d)
        toggled == [k \in 1..Len(diff) |->
                       IF held(diff[k])
                       THEN [diff[k] EXCEPT !.before = diff[k].after,
                                            !.after = diff[k].before]
                       ELSE diff[k]]
        r == ApplyFrom(c.data, toggled, direction, 1)
    IN  [canvas |-> [c EXCEPT !.data = r.data], panic |-> r.panic]

\* Canvas_apply_diff painting the pixels white in the Reverse direction
Canvas_apply_diff_ReverseWhitens(c, diff, direction) ==
    LET whitened == [k \in 1..Len(diff) |-> [diff[k] EXCEPT !.before = White]]
        r == ApplyFrom(c.data, whitened, direction, 1)
    IN  [canvas |-> [c EXCEPT !.data = r.data], panic |-> r.panic]

\* returns the canvas after the call and whether the call panicked
Canvas_apply_diff(c, diff, direction) ==
    LET r == ApplyFrom(c.data, diff, direction, 1)
    IN  [canvas |-> [c EXCEPT !.data = r.data], panic |-> r.panic]

(***************************************************************************)
(* history.rs: the diff stack.  A History is [diffs, cursor].              *)
(***************************************************************************)
History_new == [diffs |-> <<>>, cursor |-> 0]

\* TRUE when the assertion passes
History_consistency_check(h) == h.cursor <= Len(h.diffs)

\* History_undo reading the diff before it moves the cursor
History_undo_ReadsBeforeMove(h) ==
    IF h.cursor = 0
    THEN [h |-> h, ret |-> None, panic |-> NoPanic]
    ELSE IF h.cursor >= Len(h.diffs)
    THEN [h |-> h, ret |-> None, panic |-> "index out of bounds"]
    ELSE [h |-> [h EXCEPT !.cursor = h.cursor - 1],
          ret |-> Some(h.diffs[h.cursor + 1]), panic |-> NoPanic]

\* History_undo popping the diff it gives back off the vector
History_undo_PopsDiff(h) ==
    IF h.cursor = 0
    THEN [h |-> h, ret |-> None, panic |-> NoPanic]
    ELSE [h |-> [diffs |-> SubSeq(h.diffs, 1, h.cursor - 1),
                 cursor |-> h.cursor - 1],
          ret |-> Some(h.diffs[h.cursor]), panic |-> NoPanic]

\* returns the history after the call, the call's result and its panic
History_undo(h) ==
    IF h.cursor = 0
    THEN [h |-> h, ret |-> None,
          panic |-> IF History_consistency_check(h)
                    THEN NoPanic ELSE "assertion failed"]
    ELSE LET h2 == [h EXCEPT !.cursor = h.cursor - 1]
         IN  IF h2.cursor >= Len(h2.diffs)
             THEN [h |-> h2, ret |-> None, panic |-> "index out of bounds"]
             ELSE IF ~History_consistency_check(h2)
             THEN [h |-> h2, ret |-> None, panic |-> "assertion failed"]
             ELSE [h |-> h2, ret |-> Some(h2.diffs[h2.cursor + 1]),
                   panic |-> NoPanic]

\* History_redo moving the cursor whether or not there is a diff to redo
History_redo_AlwaysMoves(h) ==
    LET h2 == [h EXCEPT !.cursor = h.cursor + 1]
    IN  IF ~History_consistency_check(h2)
        THEN [h |-> h2, ret |-> None, panic |-> "assertion failed"]
        ELSE [h |-> h2, ret |-> Some(h.diffs[h.cursor + 1]), panic |-> NoPanic]

\* History_redo moving the cursor before it reads the diff
History_redo_MovesBeforeRead(h) ==
    IF h.cursor < Len(h.diffs)
    THEN LET h2 == [h EXCEPT !.cursor = h.cursor + 1]
         IN  IF h2.cursor < Len(h2.diffs)
             THEN [h |-> h2, ret |-> Some(h2.diffs[h2.cursor + 1]),
                   panic |-> NoPanic]
             ELSE [h |-> h2, ret |-> None, panic |-> NoPanic]
    ELSE [h |-> h, ret |-> None, panic |-> NoPanic]

History_redo(h) ==
    LET diff == IF h.cursor < Len(h.diffs)
                THEN Some(h.diffs[h.cursor + 1])
                ELSE None
        h2 == IF diff.tag = "Some"
              THEN [h EXCEPT !.cursor = h.cursor + 1]
              ELSE h
    IN  IF ~History_consistency_check(h2)
        THEN [h |-> h2, ret |-> None, panic |-> "assertion failed"]
        ELSE [h |-> h2, ret |-> diff, panic |-> NoPanic]

\* History_record pushing the diff without truncating to the cursor
History_record_KeepsTail(h, diff) ==
    IF ~History_consistency_check(h)
    THEN [h |-> h, panic |-> "assertion failed"]
    ELSE [h |-> [diffs |-> Append(h.diffs, diff), cursor |-> h.cursor + 1],
          panic |-> NoPanic]

\* History_record putting an empty diff in front of the redo tail
History_record_KeepsTailForEmptyDiff(h, diff) ==
    IF ~History_consistency_check(h)
    THEN [h |-> h, panic |-> "assertion failed"]
    ELSE [h |-> [diffs |-> IF diff = <<>>
                           THEN SubSeq(h.diffs, 1, h.cursor) \o <<diff>>
                                \o SubSeq(h.diffs, h.cursor + 1, Len(h.diffs))
                           ELSE Append(SubSeq(h.diffs, 1, h.cursor), diff),
                 cursor |-> h.cursor + 1],
          panic |-> NoPanic]

History_record(h, diff) ==
    IF ~History_consistency_check(h)
    THEN [h |-> h, panic |-> "assertion failed"]
    ELSE IF h.cursor > Len(h.diffs)
    THEN [h |-> h,
          panic |-> "It is a bug to increase the size of the history vector"]
    ELSE LET h2 == [diffs |-> Append(SubSeq(h.diffs, 1, h.cursor), diff),
                    cursor |-> h.cursor + 1]
         IN  IF ~History_consistency_check(h2)
             THEN [h |-> h2, panic |-> "assertion failed"]
             ELSE [h |-> h2, panic |-> NoPanic]

(***************************************************************************)
(* editor.rs: the Editor.  An Editor is                                    *)
(* [canvas, shadow_data, history, in_transaction, scale, center].          *)
(***************************************************************************)
Editor_new(width, height) ==
    LET canvas == Canvas_new(width, height)
    IN  [canvas |-> canvas,
         shadow_data |-> Canvas_create_shadow_data(canvas),
         history |-> History_new,
         in_transaction |-> FALSE,
         scale |-> 1,
         center |-> Point_new(RDiv(FromInt(width), FromInt(2)),
                              RDiv(FromInt(height), FromInt(2)))]

\* |t, lim| t.max(0.0).min(lim)
Clamp(t, lim) == RMin(RMax(t, FromInt(0)), lim)

Editor_scroll(e, delta_x, delta_y) ==
    LET width == FromInt(e.canvas.width)
        height == FromInt(e.canvas.width)
    IN  [e EXCEPT !.center =
            Point_new(Clamp(RAdd(e.center.x, delta_x), width),
                      Clamp(RAdd(e.center.y, delta_y), height))]

\* Editor_recalc_scale_up stepping by two
Editor_recalc_scale_up_StepsByTwo(orig_scale) == Some(orig_scale + 2)

Editor_recalc_scale_up(orig_scale) == Some(orig_scale + 1)

\* Times(0) is the unreachable!() arm: a panic
Editor_recalc_scale_down(orig_scale) ==
    IF orig_scale = 0
    THEN [tag |-> "Panic"]
    ELSE IF orig_scale = 1 THEN None ELSE Some(orig_scale - 1)

\* Editor_rescale leaving the center where it is
Editor_rescale_KeepsCenter(e, new_scale, stationary_point) ==
    [e EXCEPT !.scale = new_scale]

Editor_rescale(e, new_scale, stationary_point) ==
    LET orig_scale == e.scale
        orig_center == e.center
        orig_offset_x == RSub(stationary_point.x, orig_center.x)
        orig_offset_y == RSub(stationary_point.y, orig_center.y)
        new_offset_x ==
            Scale_apply(orig_scale, Scale_unapply(new_scale, orig_offset_x))
        new_offset_y ==
            Scale_apply(orig_scale, Scale_unapply(new_scale, orig_offset_y))
        new_center ==
            Point_new(Clamp(RSub(stationary_point.x, new_offset_x),
                            FromInt(e.canvas.width)),
                      Clamp(RSub(stationary_point.y, new_offset_y),
                            FromInt(e.canvas.height)))
    IN  [e EXCEPT !.center = new_center, !.scale = new_scale]

\* scale_up and scale_down return the editor after the call, the call's
\* result and its panic
Editor_scale_up(e, stationary_point) ==
    LET new_scale == Editor_recalc_scale_up(e.scale)
    IN  [e |-> Editor_rescale(e, new_scale.val, stationary_point),
         ret |-> new_scale, panic |-> NoPanic]

\* Editor_scale_down moving the center to the stationary point when the
\* scale cannot go down
Editor_scale_down_CentersAtFloor(e, stationary_point) ==
    LET new_scale == Editor_recalc_scale_down(e.scale)
    IN  IF new_scale.tag = "Panic"
        THEN [e |-> e, ret |-> None, panic |-> "unreachable"]
        ELSE IF new_scale.tag = "Some"
        THEN [e |-> Editor_rescale(e, new_scale.val, stationary_point),
              ret |-> new_scale, panic |-> NoPanic]
        ELSE [e |-> [e EXCEPT !.center = stationary_point],
              ret |-> new_scale, panic |-> NoPanic]

Editor_scale_down(e, stationary_point) ==
    LET new_scale == Editor_recalc_scale_down(e.scale)
    IN  IF new_scale.tag = "Panic"
        THEN [e |-> e, ret |-> None, panic |-> "unreachable"]
        ELSE IF new_scale.tag = "Some"
        THEN [e |-> Editor_rescale(e, new_scale.val, stationary_point),
              ret |-> new_scale, panic |-> NoPanic]
        ELSE [e |-> e, ret |-> new_scale, panic |-> NoPanic]

\* Editor_undo without the check for an open transaction
Editor_undo_NoTransactionCheck(e) ==
    LET r == History_undo(e.history)
        e2 == [e EXCEPT !.history = r.h]
    IN  IF r.panic # NoPanic
        THEN [e |-> e2, ret |-> Unit, panic |-> r.panic]
        ELSE IF r.ret.tag = "None"
        THEN [e |-> e2, ret |-> Err(AlreadyAtTimeEdge), panic |-> NoPanic]
        ELSE LET a == Canvas_apply_diff(e2.canvas, r.ret.val, Reverse)
             IN  [e |-> [e2 EXCEPT !.canvas = a.canvas],
                  ret |-> Ok, panic |-> a.panic]

\* Editor_undo reporting the time edge as TransactionInProgress
Editor_undo_ConflatesErrors(e) ==
    IF e.in_transaction
    THEN [e |-> e, ret |-> Err(TransactionInProgress), panic |-> NoPanic]
    ELSE LET r == History_undo(e.history)
             e2 == [e EXCEPT !.history = r.h]
         IN  IF r.panic # NoPanic
             THEN [e |-> e2, ret |-> Unit, panic |-> r.panic]
             ELSE IF r.ret.tag = "None"
             THEN [e |-> e2, ret |-> Err(TransactionInProgress),
                   panic |-> NoPanic]
             ELSE LET a == Canvas_apply_diff(e2.canvas, r.ret.val, Reverse)
                  IN  [e |-> [e2 EXCEPT !.canvas = a.canvas],
                       ret |-> Ok, panic |-> a.panic]

Editor_undo(e) ==
    IF e.in_transaction
    THEN [e |-> e, ret |-> Err(TransactionInProgress), panic |-> NoPanic]
    ELSE LET r == History_undo(e.history)
             e2 == [e EXCEPT !.history = r.h]
         IN  IF r.panic # NoPanic
             THEN [e |-> e2, ret |-> Unit, panic |-> r.panic]
             ELSE IF r.ret.tag = "None"
             THEN [e |-> e2, ret |-> Err(AlreadyAtTimeEdge), panic |-> NoPanic]
             ELSE LET a == Canvas_apply_diff(e2.canvas, r.ret.val, Reverse)
                  IN  [e |-> [e2 EXCEPT !.canvas = a.canvas],
                       ret |-> Ok, panic |-> a.panic]

\* Editor_redo without the check for an open transaction
Editor_redo_NoTransactionCheck(e) ==
    LET r == History_redo(e.history)
        e2 == [e EXCEPT !.history = r.h]
    IN  IF r.panic # NoPanic
        THEN [e |-> e2, ret |-> Unit, panic |-> r.panic]
        ELSE IF r.ret.tag = "None"
        THEN [e |-> e2, ret |-> Err(AlreadyAtTimeEdge), panic |-> NoPanic]
        ELSE LET a == Canvas_apply_diff(e2.canvas, r.ret.val, Normal)
             IN  [e |-> [e2 EXCEPT !.canvas = a.canvas],
                  ret |-> Ok, panic |-> a.panic]

\* Editor_redo moving the cursor without applying the diff
Editor_redo_KeepsCanvas(e) ==
    IF e.in_transaction
    THEN [e |-> e, ret |-> Err(TransactionInProgress), panic |-> NoPanic]
    ELSE LET r == History_redo(e.history)
         IN  [e |-> [e EXCEPT !.history = r.h],
              ret |-> IF r.ret.tag = "None" THEN Err(AlreadyAtTimeEdge) ELSE Ok,
              panic |-> r.panic]

Editor_redo(e) ==
    IF e.in_transaction
    THEN [e |-> e, ret |-> Err(TransactionInProgress), panic |-> NoPanic]
    ELSE LET r == History_redo(e.history)
             e2 == [e EXCEPT !.history = r.h]
         IN  IF r.panic # NoPanic
             THEN [e |-> e2, ret |-> Unit, panic |-> r.panic]
             ELSE IF r.ret.tag = "None"
             THEN [e |-> e2, ret |-> Err(AlreadyAtTimeEdge), panic |-> NoPanic]
             ELSE LET a == Canvas_apply_diff(e2.canvas, r.ret.val, Normal)
                  IN  [e |-> [e2 EXCEPT !.canvas = a.canvas],
                       ret |-> Ok, panic |-> a.panic]

\* Editor_begin leaving the shadow data as the last transaction left it
Editor_begin_KeepsShadow(e) == [e EXCEPT !.in_transaction = TRUE]

Editor_begin(e) ==
    [e EXCEPT !.shadow_data = Canvas_update_shadow_data(e.canvas, e.shadow_data),
              !.in_transaction = TRUE]

\* Editor_end recording nothing when the diff is empty
Editor_end_SkipsEmptyDiff(e) ==
    LET d == Canvas_compare_shadow_data(e.canvas, e.shadow_data)
    IN  IF d.panic # NoPanic
        THEN [e |-> e, panic |-> d.panic]
        ELSE IF d.diff = <<>>
        THEN [e |-> [e EXCEPT !.in_transaction = FALSE], panic |-> NoPanic]
        ELSE LET r == History_record(e.history, d.diff)
             IN  IF r.panic # NoPanic
                 THEN [e |-> [e EXCEPT !.history = r.h], panic |-> r.panic]
                 ELSE [e |-> [e EXCEPT !.history = r.h,
                                       !.in_transaction = FALSE],
                       panic |-> NoPanic]

\* returns the editor after the call and the call's panic
Editor_end(e) ==
    LET d == Canvas_compare_shadow_data(e.canvas, e.shadow_data)
    IN  IF d.panic # NoPanic
        THEN [e |-> e, panic |-> d.panic]
        ELSE LET r == History_record(e.history, d.diff)
             IN  IF r.panic # NoPanic
                 THEN [e |-> [e EXCEPT !.history = r.h], panic |-> r.panic]
                 ELSE [e |-> [e EXCEPT !.history = r.h,
                                       !.in_transaction = FALSE],
                       panic |-> NoPanic]

(***************************************************************************)
(* main.rs and tools/pencil.rs: the cursor position and the Pencil.        *)
(***************************************************************************)
\* f64::round: to the nearest integer, halves away from zero
Round(q) ==
    IF q[1] >= 0
    THEN (2 * q[1] + q[2]) \div (2 * q[2])
    ELSE -((2 * (-q[1]) + q[2]) \div (2 * q[2]))

\* f64 as u32: toward zero, and 0 for what is negative
AsU32(q) == IF q[1] <= 0 THEN 0 ELSE q[1] \div q[2]

\* get_at and set_at return the panic of unwrap() on None
Canvas_get_at(c, x, y) ==
    LET r == Canvas_try_get_at(c, x, y)
    IN  IF r.tag = "None"
        THEN [ret |-> None, panic |-> "called Option::unwrap() on a None value"]
        ELSE [ret |-> r.val, panic |-> NoPanic]

Canvas_set_at(c, x, y, color) ==
    LET r == Canvas_try_set_at(c, x, y, color)
    IN  IF r.ret.tag = "None"
        THEN [canvas |-> r.canvas,
              panic |-> "called Option::unwrap() on a None value"]
        ELSE [canvas |-> r.canvas, panic |-> NoPanic]

Canvas_contains_point(c, point) ==
    /\ RLeq(FromInt(0), point.x)
    /\ RLeq(FromInt(0), point.y)
    /\ RLess(point.x, FromInt(c.width))
    /\ RLess(point.y, FromInt(c.height))

Editor_get_left_top_offset(e, screen_width, screen_height) ==
    <<RSub(RDiv(FromInt(screen_width), FromInt(2)),
           Scale_apply(e.scale, e.center.x)),
      RSub(RDiv(FromInt(screen_height), FromInt(2)),
           Scale_apply(e.scale, e.center.y))>>

Editor_get_left_top_offset_i32(e, screen_width, screen_height) ==
    LET o == Editor_get_left_top_offset(e, screen_width, screen_height)
    IN  <<Round(o[1]), Round(o[2])>>

Editor_translate_to_image_point(e, point, screen_width, screen_height) ==
    LET o == Editor_get_left_top_offset_i32(e, screen_width, screen_height)
    IN  Point_new(Scale_unapply(e.scale, RSub(point.x, FromInt(o[1]))),
                  Scale_unapply(e.scale, RSub(point.y, FromInt(o[2]))))

\* enum TranslatedPoint
WithinCanvas(point) == [tag |-> "WithinCanvas", point |-> point]
OutsideCanvas(point) == [tag |-> "OutsideCanvas", point |-> point]
OutsideWindow == [tag |-> "OutsideWindow"]

\* translate_cursor_position without the lower bounds of the two ranges
translate_cursor_position_NoLowerBound(e, position, screen) ==
    IF position.tag = "None"
    THEN OutsideWindow
    ELSE LET half == Rat(1, 2)
             translated_point ==
                 Editor_translate_to_image_point(e,
                     Point_new(RAdd(FromInt(position.val[1]), half),
                               RAdd(FromInt(position.val[2]), half)),
                     screen[1], screen[2])
         IN  IF /\ RLess(translated_point.x, FromInt(e.canvas.width))
                /\ RLess(translated_point.y, FromInt(e.canvas.height))
             THEN WithinCanvas(translated_point)
             ELSE OutsideCanvas(translated_point)

\* position is None or Some(<<x, y>>), a pixel of the screen; screen is
\* the drawable size of the window
translate_cursor_position(e, position, screen) ==
    IF position.tag = "None"
    THEN OutsideWindow
    ELSE LET half == Rat(1, 2)
             translated_point ==
                 Editor_translate_to_image_point(e,
                     Point_new(RAdd(FromInt(position.val[1]), half),
                               RAdd(FromInt(position.val[2]), half)),
                     screen[1], screen[2])
         IN  IF /\ RLeq(FromInt(0), translated_point.x)
                /\ RLess(translated_point.x, FromInt(e.canvas.width))
                /\ RLeq(FromInt(0), translated_point.y)
                /\ RLess(translated_point.y, FromInt(e.canvas.height))
             THEN WithinCanvas(translated_point)
             ELSE OutsideCanvas(translated_point)

\* enum PencilState
Inactive == [tag |-> "Inactive"]
Active(last_point) == [tag |-> "Active", last_point |-> last_point]

\* The Pencil's handlers return the Pencil's state and the Editor after the
\* call, the calls made on the Editor, and the panic.
Pencil_on_mouse_button_press(state, button, context, e) ==
    IF button = "Left"
    THEN [state |-> Active(context.cursor_position),
          e |-> Editor_begin(e),
          calls |-> <<"begin">>, panic |-> NoPanic]
    ELSE [state |-> state, e |-> e, calls |-> <<>>, panic |-> NoPanic]

\* Pencil_on_mouse_button_release leaving the Pencil's state as it is
Pencil_on_mouse_button_release_KeepsState(state, button, context, e) ==
    IF button = "Left"
    THEN LET r == Editor_end(e)
         IN  [state |-> state, e |-> r.e,
              calls |-> <<"end">>, panic |-> r.panic]
    ELSE [state |-> state, e |-> e, calls |-> <<>>, panic |-> NoPanic]

Pencil_on_mouse_button_release(state, button, context, e) ==
    IF button = "Left"
    THEN LET r == Editor_end(e)
         IN  [state |-> Inactive, e |-> r.e,
              calls |-> <<"end">>, panic |-> r.panic]
    ELSE [state |-> state, e |-> e, calls |-> <<>>, panic |-> NoPanic]

\* the callback of line.draw, called for each pixel of a set
RECURSIVE PutPixels(_, _, _)
PutPixels(c, pixels, color) ==
    IF pixels = {}
    THEN c
    ELSE LET p == CHOOSE q \in pixels : TRUE
         IN  PutPixels(Canvas_try_set_at(c, p[1], p[2], color).canvas,
                       pixels \ {p}, color)

\* Pencil_on_cursor_move drawing to the current point also when the cursor
\* comes back from outside the window
Pencil_on_cursor_move_DrawsFromOutside(state, context, e, line) ==
    IF state.tag = "Inactive"
    THEN [state |-> state, e |-> e, calls |-> <<>>, panic |-> NoPanic]
    ELSE IF context.cursor_position.tag = "OutsideWindow"
    THEN [state |-> Active(OutsideWindow), e |-> e,
          calls |-> <<>>, panic |-> NoPanic]
    ELSE LET current_point == context.cursor_position.point
             color == context.primary_color
             c2 == IF Canvas_contains_point(e.canvas, current_point)
                   THEN Canvas_try_set_at(e.canvas, AsU32(current_point.x),
                                          AsU32(current_point.y), color).canvas
                   ELSE e.canvas
         IN  [state |-> Active(WithinCanvas(current_point)),
              e |-> [e EXCEPT !.canvas = PutPixels(c2, line, color)],
              calls |-> <<"draw">>, panic |-> NoPanic]

\* line is the set of pixels that HardLine::try_new(last_point,
\* current_point, 1.0), if it gives a line, passes to the callback of draw
Pencil_on_cursor_move(state, context, e, line) ==
    IF state.tag = "Inactive"
    THEN [state |-> state, e |-> e, calls |-> <<>>, panic |-> NoPanic]
    ELSE IF state.last_point.tag = "OutsideWindow"
    THEN [state |-> Active(context.cursor_position), e |-> e,
          calls |-> <<>>, panic |-> NoPanic]
    ELSE IF context.cursor_position.tag = "OutsideWindow"
    THEN [state |-> Active(OutsideWindow), e |-> e,
          calls |-> <<>>, panic |-> NoPanic]
    ELSE LET last_point == state.last_point.point
             current_point == context.cursor_position.point
             color == context.primary_color
             c1 == IF Canvas_contains_point(e.canvas, last_point)
                   THEN Canvas_set_at(e.canvas, AsU32(last_point.x),
                                      AsU32(last_point.y), color)
                   ELSE [canvas |-> e.canvas, panic |-> NoPanic]
             c2 == IF Canvas_contains_point(c1.canvas, current_point)
                   THEN Canvas_try_set_at(c1.canvas, AsU32(current_point.x),
                                          AsU32(current_point.y), color).canvas
                   ELSE c1.canvas
             c3 == PutPixels(c2, line, color)
         IN  IF c1.panic # NoPanic
             THEN [state |-> state, e |-> [e EXCEPT !.canvas = c1.canvas],
                   calls |-> <<"set_at">>, panic |-> c1.panic]
             ELSE [state |-> Active(WithinCanvas(current_point)),
                   e |-> [e EXCEPT !.canvas = c3],
                   calls |-> <<"draw">>, panic |-> NoPanic]

(***************************************************************************)
(* draw_primitives.rs: HardLine.  Its f64 values are rationals or one of   *)
(* NaN, +inf, -inf, written with a zero denominator.  A zero divisor is    *)
(* the +0.0 that the difference of two equal numbers gives.  The           *)
(* coordinates drawn from are multiples of 1/20 or coarser, so that two    *)
(* numbers the code compares are equal or much further apart than 1e-9:    *)
(* t + 1e-9 < u is t < u, |t| < 1e-9 is t = 0, and adding or subtracting   *)
(* 1e-9 before round() only decides which way a half goes.                 *)
(***************************************************************************)
NaN == <<0, 0>>
PosInf == <<1, 0>>
NegInf == <<-1, 0>>
IsNaN(p) == p = NaN
IsFinite(p) == p[2] # 0
Sign(p) == IF p[1] > 0 THEN 1 ELSE IF p[1] < 0 THEN -1 ELSE 0

FNeg(p) == <<-p[1], p[2]>>

FAdd(p, q) ==
    IF IsFinite(p) /\ IsFinite(q) THEN RAdd(p, q)
    ELSE IF IsNaN(p) \/ IsNaN(q) THEN NaN
    ELSE IF ~IsFinite(p) /\ ~IsFinite(q) /\ p # q THEN NaN
    ELSE IF IsFinite(p) THEN q ELSE p

FSub(p, q) == FAdd(p, FNeg(q))

FMul(p, q) ==
    IF IsFinite(p) /\ IsFinite(q) THEN RMul(p, q)
    ELSE IF IsNaN(p) \/ IsNaN(q) \/ Sign(p) * Sign(q) = 0 THEN NaN
    ELSE <<Sign(p) * Sign(q), 0>>

FDiv(p, q) ==
    IF IsNaN(p) \/ IsNaN(q) THEN NaN
    ELSE IF ~IsFinite(p) /\ ~IsFinite(q) THEN NaN
    ELSE IF ~IsFinite(q) THEN FromInt(0)
    ELSE IF ~IsFinite(p) THEN <<Sign(p) * (IF q[1] < 0 THEN -1 ELSE 1), 0>>
    ELSE IF q[1] = 0 THEN (IF p[1] = 0 THEN NaN ELSE <<Sign(p), 0>>)
    ELSE RDiv(p, q)

\* p < q; false when either is NaN
FLess(p, q) ==
    IF IsNaN(p) \/ IsNaN(q) THEN FALSE
    ELSE IF IsFinite(p) /\ IsFinite(q) THEN RLess(p, q)
    ELSE (p = NegInf /\ q # NegInf) \/ (q = PosInf /\ p # PosInf)

\* f64::floor and its mirror image, of a rational
Floor(q) == IF q[1] >= 0 THEN q[1] \div q[2] ELSE -((-q[1] + q[2] - 1) \div q[2])
Ceil(q) == -Floor(FNeg(q))

\* A u32 is written as the integer its 32 bits give when read as an i32:
\* itself below 2^31, and v - 2^32 from there on (u32::MAX is -1).
U32Max == -1
\* i64 as u32, for an i64 between -2^31 and 2^31
I64AsU32(y) == y
\* f64 as u32: saturating, NaN to 0; r is the f64 rounded already
F64AsU32(r) == IF r < 0 THEN 0 ELSE r
ULess(v, w) == IF (v >= 0) = (w >= 0) THEN v < w ELSE w < 0
ULeq(v, w) == v = w \/ ULess(v, w)

\* (x - 1e-9).round() as u32: a half goes down
RoundLeftAsU32(x) ==
    IF IsNaN(x) \/ x = NegInf THEN 0
    ELSE IF x = PosInf THEN U32Max
    ELSE F64AsU32(Ceil(RSub(x, Rat(1, 2))))

\* (x + 1e-9).round() as u32: a half goes up
RoundRightAsU32(x) ==
    IF IsNaN(x) \/ x = NegInf THEN 0
    ELSE IF x = PosInf THEN U32Max
    ELSE F64AsU32(Floor(RAdd(x, Rat(1, 2))))

sort2(a, b) == IF FLess(b, a) THEN <<b, a>> ELSE <<a, b>>

\* f64::hypot, for arguments whose hypotenuse is rational
IsSquare(n) == \E k \in 0..n : k * k = n
SqrtInt(n) == CHOOSE k \in 0..n : k * k = n
HypotIsRational(p, q) ==
    LET sum == RAdd(RMul(p, p), RMul(q, q))
    IN  IsSquare(sum[1]) /\ IsSquare(sum[2])
Hypot(p, q) ==
    LET sum == RAdd(RMul(p, p), RMul(q, q))
    IN  <<SqrtInt(sum[1]), SqrtInt(sum[2])>>

HardLine_new(a, b, thickness) == [a |-> a, b |-> b, thickness |-> thickness]

\* points.sort_by(|p, q| p.y.partial_cmp(&q.y).unwrap()): a stable sort, p
\* goes behind the points whose y is not greater
RECURSIVE InsertByY(_, _)
InsertByY(points, p) ==
    IF points = <<>>
    THEN <<p>>
    ELSE IF RLess(p.y, Head(points).y)
    THEN <<p>> \o points
    ELSE <<Head(points)>> \o InsertByY(Tail(points), p)

\* the four corners, sorted by y; the assert!() panics for a line without
\* length
HardLine_scanline_points(line) ==
    LET normal_x0 == RSub(line.b.y, line.a.y)
        normal_y0 == RSub(line.a.x, line.b.x)
        scale == Hypot(normal_x0, normal_y0)
        normal_x == RDiv(normal_x0, scale)
        normal_y == RDiv(normal_y0, scale)
        half_x == RDiv(RMul(normal_x, line.thickness), FromInt(2))
        half_y == RDiv(RMul(normal_y, line.thickness), FromInt(2))
        p1 == Point_new(RAdd(line.a.x, half_x), RAdd(line.a.y, half_y))
        p2 == Point_new(RSub(line.a.x, half_x), RSub(line.a.y, half_y))
        p3 == Point_new(RAdd(line.b.x, half_x), RAdd(line.b.y, half_y))
        p4 == Point_new(RSub(line.b.x, half_x), RSub(line.b.y, half_y))
    IN  IF scale[1] = 0
        THEN [points |-> <<>>,
              panic |-> "assertion failed: scale.abs() > 1e-9"]
        ELSE [points |-> InsertByY(InsertByY(InsertByY(<<p1>>, p2), p3), p4),
              panic |-> NoPanic]

\* the calls put_pixel(x, y as u32) of a row, for x in x_left..=x_right and
\* for x in x_left..x_right: one record for a range that is not empty
RangeInclusive(y, x_left, x_right) ==
    IF ULeq(x_left, x_right)
    THEN <<[y |-> I64AsU32(y), x_left |-> x_left, x_right |-> x_right]>>
    ELSE <<>>
RangeExclusive(y, x_left, x_right) ==
    IF ULess(x_left, x_right)
    THEN <<[y |-> I64AsU32(y), x_left |-> x_left, x_right |-> x_right - 1]>>
    ELSE <<>>

\* the first loop of draw, from row y on: the rows it puts and the y it
\* leaves
RECURSIVE HardLine_draw_loop1(_, _)
HardLine_draw_loop1(pts, y) ==
    LET top == pts[1]  topmid == pts[2]  bottommid == pts[3]
    IN  IF ~RLess(FromInt(y), topmid.y) \/ RSub(topmid.y, top.y)[1] = 0
        THEN [rows |-> <<>>, y |-> y]
        ELSE LET dy == FAdd(FSub(FromInt(y), top.y), Rat(1, 2))
                 k_topmid == FDiv(dy, FSub(topmid.y, top.y))
                 k_bottommid == FDiv(dy, FSub(bottommid.y, top.y))
                 dx_topmid == FMul(k_topmid, FSub(topmid.x, top.x))
                 dx_bottommid == FMul(k_bottommid, FSub(bottommid.x, top.x))
                 x_topmid == FAdd(top.x, dx_topmid)
                 x_bottommid == FAdd(top.x, dx_bottommid)
                 x == sort2(x_topmid, x_bottommid)
                 rest == HardLine_draw_loop1(pts, y + 1)
             IN  [rows |-> RangeInclusive(y, RoundLeftAsU32(x[1]),
                                          RoundRightAsU32(x[2])) \o rest.rows,
                  y |-> rest.y]

RECURSIVE HardLine_draw_loop2(_, _)
HardLine_draw_loop2(pts, y) ==
    LET top == pts[1]  topmid == pts[2]  bottommid == pts[3]
    IN  IF ~RLess(RAdd(FromInt(y), Rat(1, 2)), bottommid.y)
        THEN [rows |-> <<>>, y |-> y]
        ELSE LET dy == FAdd(FSub(FromInt(y), top.y), Rat(1, 2))
                 k_bottommid == FDiv(dy, FSub(bottommid.y, top.y))
                 dx_bottommid == FMul(k_bottommid, FSub(bottommid.x, top.x))
                 x_bottommid == FAdd(top.x, dx_bottommid)
                 d == FSub(top.y, topmid.y)
                 distance_x ==
                     FSub(FAdd(FDiv(FMul(d, d), FSub(top.x, topmid.x)), top.x),
                          topmid.x)
                 x_topmid == FSub(x_bottommid, distance_x)
                 x == sort2(x_topmid, x_bottommid)
                 rest == HardLine_draw_loop2(pts, y + 1)
             IN  [rows |-> RangeExclusive(y, RoundLeftAsU32(x[1]),
                                          RoundRightAsU32(x[2])) \o rest.rows,
                  y |-> rest.y]

RECURSIVE HardLine_draw_loop3(_, _)
HardLine_draw_loop3(pts, y) ==
    LET topmid == pts[2]  bottommid == pts[3]  bottom == pts[4]
    IN  IF ~RLess(FromInt(y), bottom.y)
        THEN [rows |-> <<>>, y |-> y]
        ELSE LET dy == FSub(FSub(bottom.y, FromInt(y)), Rat(1, 2))
                 k_topmid == FDiv(dy, FSub(bottom.y, topmid.y))
                 k_bottommid == FDiv(dy, FSub(bottom.y, bottommid.y))
                 dx_topmid == FMul(k_topmid, FSub(topmid.x, bottom.x))
                 dx_bottommid == FMul(k_bottommid, FSub(bottommid.x, bottom.x))
                 x_topmid == FAdd(bottom.x, dx_topmid)
                 x_bottommid == FAdd(bottom.x, dx_bottommid)
                 x == sort2(x_topmid, x_bottommid)
                 rest == HardLine_draw_loop3(pts, y + 1)
             IN  [rows |-> RangeInclusive(y, RoundLeftAsU32(x[1]),
                                          RoundRightAsU32(x[2])) \o rest.rows,
                  y |-> rest.y]

\* the calls of put_pixel that draw makes, row by row, and its panic
HardLine_draw(line) ==
    LET sp == HardLine_scanline_points(line)
        l1 == HardLine_draw_loop1(sp.points, Floor(sp.points[1].y))
        l2 == HardLine_draw_loop2(sp.points, l1.y)
        l3 == HardLine_draw_loop3(sp.points, l2.y)
    IN  IF sp.panic # NoPanic
        THEN [rows |-> <<>>, panic |-> sp.panic]
        ELSE [rows |-> l1.rows \o l2.rows \o l3.rows, panic |-> NoPanic]

(***************************************************************************)
(* The state.                                                              *)
(***************************************************************************)
VARIABLES
    editor,      \* the Editor (struct Editor and what it owns)
    hist,        \* a History of its own, called directly (SpecHistory)
    hist_old,    \* hist as it was when the call made last began
    fresh_record, \* hist: record() was called and no undo() has given a
                 \* diff back since
    tail_phase,  \* hist, since the record() that last discarded a redo tail:
                 \* "discarded", then "recorded" once another diff is
                 \* recorded, then "recorded_undone" once an undo() after
                 \* that gives a diff back ("no_discard" before any)
    op,          \* the call made last ("new" right after construction)
    arg,         \* the arguments of that call
    ret,         \* what that call returned
    panicked,    \* "none", or the panic that ended the run
    post_data,   \* the pixel data when Editor.end() returned last (kept by
                 \* the calls on the Editor, not by the application)
    pencil,      \* the state of the Pencil (PencilState)
    draw_context, \* the DrawContext: primary_color and cursor_position
    is_scrolling, \* OxiPaintState.is_scrolling
    mouse,       \* the mouse as SDL has it: its position on the screen and
                 \* whether the left button is held down
    calls,       \* the calls on the Editor that the event handled last made
    canvas_old,  \* SpecCanvas: the Canvas as it was when the call made last
                 \* began; elsewhere the Canvas as it was constructed
    view_trail,  \* SpecView: the last two calls, the last one first, each
                 \* with the scale and the center as they were when it began
    time_trail   \* the calls on the Editor: the undo() and redo() calls
                 \* that returned Ok since the last call of another kind or
                 \* outcome, the last two of them, the last one first, each
                 \* with the pixel data and the cursor as they were when it
                 \* began

vars == <<editor, hist, hist_old, fresh_record, tail_phase, op, arg, ret,
          panicked, post_data, pencil, draw_context, is_scrolling, mouse,
          calls, canvas_old, view_trail, time_trail>>
historyVars == <<hist, hist_old, fresh_record, tail_phase>>
appVars == <<pencil, draw_context, is_scrolling, mouse, calls>>

\* The inputs of the calls.  The canvas is two pixels, side by side or one
\* above the other; the application's is 800 x 600 (main.rs, OxiPaint::new).
Dimensions == {<<2, 1>>, <<1, 2>>}
Palette == {White, Black}
ScrollDeltas == {<<FromInt(1), FromInt(-1)>>}
StationaryPoints == {Point_new(FromInt(0), FromInt(0))}

InitEditor(width, height) ==
    /\ editor = Editor_new(width, height)
    /\ hist = History_new
    /\ hist_old = History_new
    /\ fresh_record = FALSE
    /\ tail_phase = "no_discard"
    /\ op = "new"
    /\ arg = <<>>
    /\ ret = Unit
    /\ panicked = NoPanic
    /\ post_data = editor.canvas.data
    /\ pencil = Inactive
    /\ draw_context = [primary_color |-> Black,
                       cursor_position |-> OutsideWindow]
    /\ is_scrolling = FALSE
    /\ mouse = [position |-> <<0, 0>>, left_down |-> FALSE]
    /\ calls = <<>>
    /\ canvas_old = editor.canvas
    /\ view_trail = <<>>
    /\ time_trail = <<>>

Init == \E d \in Dimensions : InitEditor(d[1], d[2])

(***************************************************************************)
(* The calls on the Editor.  The caller keeps the transaction contract of  *)
(* editor.rs: begin() is not nested, end() follows a begin(), and pixels   *)
(* are written between the two.  undo(), redo() and the viewport calls     *)
(* come at any time.                                                       *)
(***************************************************************************)
\* time_trail after the call (undo or redo) with the result r
TimeTrail(call, r) ==
    IF r.panic = NoPanic /\ r.ret = Ok
    THEN LET entry == [op |-> call, data |-> editor.canvas.data,
                       cursor |-> editor.history.cursor]
         IN  IF time_trail = <<>>
             THEN <<entry>>
             ELSE <<entry, time_trail[1]>>
    ELSE <<>>

Begin ==
    /\ panicked = NoPanic
    /\ ~editor.in_transaction
    /\ editor' = Editor_begin(editor)
    /\ op' = "begin" /\ arg' = <<>> /\ ret' = Unit
    /\ UNCHANGED <<panicked, post_data, historyVars, appVars, canvas_old, view_trail>>
    /\ time_trail' = <<>>

End ==
    /\ panicked = NoPanic
    /\ editor.in_transaction
    /\ editor.history.cursor < MaxDiffs
    /\ LET r == Editor_end(editor)
       IN  /\ editor' = r.e
           /\ panicked' = r.panic
           /\ post_data' = r.e.canvas.data
    /\ op' = "end" /\ arg' = <<>> /\ ret' = Unit
    /\ UNCHANGED <<historyVars, appVars, canvas_old, view_trail>>
    /\ time_trail' = <<>>

Undo ==
    /\ panicked = NoPanic
    /\ LET r == Editor_undo(editor)
       IN  /\ editor' = r.e
           /\ ret' = r.ret
           /\ panicked' = r.panic
           /\ time_trail' = TimeTrail("undo", r)
    /\ op' = "undo" /\ arg' = <<>>
    /\ UNCHANGED <<post_data, historyVars, appVars, canvas_old, view_trail>>

Redo ==
    /\ panicked = NoPanic
    /\ LET r == Editor_redo(editor)
       IN  /\ editor' = r.e
           /\ ret' = r.ret
           /\ panicked' = r.panic
           /\ time_trail' = TimeTrail("redo", r)
    /\ op' = "redo" /\ arg' = <<>>
    /\ UNCHANGED <<post_data, historyVars, appVars, canvas_old, view_trail>>

\* editor.canvas_mut().try_set_at(x, y, color), for every pixel of the
\* canvas and the coordinates just outside it
TrySetAtWith(colors) ==
    /\ panicked = NoPanic
    /\ editor.in_transaction
    /\ \E x \in 0..editor.canvas.width, y \in 0..editor.canvas.height,
          color \in colors :
          LET r == Canvas_try_set_at(editor.canvas, x, y, color)
          IN  /\ editor' = [editor EXCEPT !.canvas = r.canvas]
              /\ ret' = r.ret
              /\ arg' = <<x, y, color>>
    /\ op' = "try_set_at"
    /\ UNCHANGED <<panicked, post_data, historyVars, appVars, canvas_old, view_trail>>
    /\ time_trail' = <<>>

TrySetAt == TrySetAtWith(Palette)

Scroll ==
    /\ panicked = NoPanic
    /\ \E d \in ScrollDeltas :
          /\ editor' = Editor_scroll(editor, d[1], d[2])
          /\ arg' = d
    /\ op' = "scroll" /\ ret' = Unit
    /\ UNCHANGED <<panicked, post_data, historyVars, appVars, canvas_old, view_trail>>
    /\ time_trail' = <<>>

ScaleUp ==
    /\ panicked = NoPanic
    /\ editor.scale < MaxScale
    /\ \E p \in StationaryPoints :
          LET r == Editor_scale_up(editor, p)
          IN  /\ editor' = r.e
              /\ ret' = r.ret
              /\ panicked' = r.panic
              /\ arg' = <<p>>
    /\ op' = "scale_up"
    /\ UNCHANGED <<post_data, historyVars, appVars, canvas_old, view_trail>>
    /\ time_trail' = <<>>

ScaleDown ==
    /\ panicked = NoPanic
    /\ \E p \in StationaryPoints :
          LET r == Editor_scale_down(editor, p)
          IN  /\ editor' = r.e
              /\ ret' = r.ret
              /\ panicked' = r.panic
              /\ arg' = <<p>>
    /\ op' = "scale_down"
    /\ UNCHANGED <<post_data, historyVars, appVars, canvas_old, view_trail>>
    /\ time_trail' = <<>>

Next ==
    \/ Begin
    \/ End
    \/ Undo
    \/ Redo
    \/ TrySetAt
    \/ Scroll
    \/ ScaleUp
    \/ ScaleDown

Spec == Init /\ [][Next]_vars

(***************************************************************************)
(* A History called directly: undo(), redo() and record(diff) in any       *)
(* order, with any of the diffs of DiffSamples.                            *)
(***************************************************************************)
DiffSamples ==
    {<<>>,
     <<[index |-> 0, before |-> White, after |-> Black]>>,
     <<[index |-> 0, before |-> Black, after |-> Amber],
       [index |-> 1, before |-> White, after |-> Black]>>}

InitHistory == InitEditor(2, 1)

HistoryUndo ==
    /\ panicked = NoPanic
    /\ LET r == History_undo(hist)
       IN  /\ hist' = r.h
           /\ ret' = r.ret
           /\ panicked' = r.panic
    /\ hist_old' = hist
    /\ fresh_record' = (fresh_record /\ ret'.tag # "Some")
    /\ tail_phase' = IF tail_phase = "recorded" /\ ret'.tag = "Some"
                     THEN "recorded_undone" ELSE tail_phase
    /\ op' = "History_undo" /\ arg' = <<>>
    /\ UNCHANGED <<editor, post_data, appVars, canvas_old, view_trail, time_trail>>

HistoryRedo ==
    /\ panicked = NoPanic
    /\ LET r == History_redo(hist)
       IN  /\ hist' = r.h
           /\ ret' = r.ret
           /\ panicked' = r.panic
    /\ hist_old' = hist
    /\ UNCHANGED <<fresh_record, tail_phase>>
    /\ op' = "History_redo" /\ arg' = <<>>
    /\ UNCHANGED <<editor, post_data, appVars, canvas_old, view_trail, time_trail>>

HistoryRecord ==
    /\ panicked = NoPanic
    /\ hist.cursor < MaxDiffs
    /\ \E diff \in DiffSamples :
          LET r == History_record(hist, diff)
          IN  /\ hist' = r.h
              /\ panicked' = r.panic
              /\ arg' = <<diff>>
    /\ hist_old' = hist
    /\ fresh_record' = TRUE
    /\ tail_phase' = IF hist.cursor < Len(hist.diffs) THEN "discarded"
                     ELSE IF tail_phase = "discarded" THEN "recorded"
                     ELSE tail_phase
    /\ op' = "History_record" /\ ret' = Unit
    /\ UNCHANGED <<editor, post_data, appVars, canvas_old, view_trail, time_trail>>

NextHistory ==
    \/ HistoryUndo
    \/ HistoryRedo
    \/ HistoryRecord

SpecHistory == InitHistory /\ [][NextHistory]_vars

(***************************************************************************)
(* The scenario of one transaction on a 4 x 4 canvas: begin(), one         *)
(* try_set_at (of any pixel, or just outside the canvas, in any color of   *)
(* ScenarioColors), end(), undo(), redo().                                 *)
(***************************************************************************)
ScenarioColors == {White, Black, Amber}

InitScenario == InitEditor(4, 4)

ScenarioBegin == op = "new" /\ Begin
ScenarioTrySetAt == op = "begin" /\ TrySetAtWith(ScenarioColors)
ScenarioEnd == op = "try_set_at" /\ End
ScenarioUndo == op = "end" /\ Undo
ScenarioRedo == op = "undo" /\ Redo

NextScenario ==
    \/ ScenarioBegin
    \/ ScenarioTrySetAt
    \/ ScenarioEnd
    \/ ScenarioUndo
    \/ ScenarioRedo

SpecScenario == InitScenario /\ [][NextScenario]_vars

(***************************************************************************)
(* The application (main.rs, OxiPaint::handle_event): one action for each  *)
(* event it handles.  The tool is the Pencil, the only one of              *)
(* tools::list().  The left button is pressed when it is up and released   *)
(* when it is down, at the place where the mouse is.                       *)
(***************************************************************************)
\* the drawable size of the window
ScreenSize == <<4, 1>>
\* the pixels of the screen the mouse visits
MousePositions == {<<0, 0>>, <<1, 0>>}
\* xrel, yrel of a MouseMotion event
RelativeMotions == {<<-1, 1>>}
\* what a line can pass to its callback: pixels of the canvas
LinePixelSets ==
    SUBSET ((0..(editor.canvas.width - 1)) \X (0..(editor.canvas.height - 1)))

\* the DrawContext after update_cursor_position(position)
update_cursor_position(position) ==
    [draw_context EXCEPT !.cursor_position =
        translate_cursor_position(editor, position, ScreenSize)]

can_draw == ~is_scrolling

\* the tool is not called: nothing changes
NotHandled ==
    [state |-> pencil, e |-> editor, calls |-> <<>>, panic |-> NoPanic]

handle_mouse_button_press(button, context) ==
    IF can_draw
    THEN Pencil_on_mouse_button_press(pencil, button, context, editor)
    ELSE NotHandled

handle_mouse_button_release(button, context) ==
    IF can_draw
    THEN Pencil_on_mouse_button_release(pencil, button, context, editor)
    ELSE NotHandled

scroll_acceleration == FromInt(2)

\* absolute_delta is None or Some(<<adx, ady>>)
handle_cursor_movement(absolute_delta, context, line) ==
    IF is_scrolling
    THEN IF absolute_delta.tag = "Some"
         THEN LET k == scroll_acceleration
                  rdx == RMul(Scale_unapply(editor.scale,
                                            FromInt(absolute_delta.val[1])), k)
                  rdy == RMul(Scale_unapply(editor.scale,
                                            FromInt(absolute_delta.val[2])), k)
              IN  [state |-> pencil, e |-> Editor_scroll(editor, rdx, rdy),
                   calls |-> <<"scroll">>, panic |-> NoPanic]
         ELSE NotHandled
    ELSE IF can_draw
    THEN Pencil_on_cursor_move(pencil, context, editor, line)
    ELSE NotHandled

\* what every handler of an event leaves behind: r is the outcome of the
\* call of the tool, context the DrawContext it was given
Handled(r, context) ==
    /\ draw_context' = context
    /\ pencil' = r.state
    /\ editor' = r.e
    /\ calls' = r.calls
    /\ panicked' = r.panic
    /\ ret' = Unit

MouseMotion ==
    /\ panicked = NoPanic
    /\ \E position \in MousePositions, rel \in RelativeMotions,
          line \in LinePixelSets :
          LET context == update_cursor_position(Some(position))
          IN  /\ Handled(handle_cursor_movement(Some(rel), context, line),
                         context)
              /\ mouse' = [mouse EXCEPT !.position = position]
              /\ arg' = <<>>
    /\ op' = "MouseMotion"
    /\ UNCHANGED <<is_scrolling, post_data, historyVars, canvas_old, view_trail, time_trail>>

MouseButtonDown ==
    /\ panicked = NoPanic
    /\ ~mouse.left_down
    /\ LET context == update_cursor_position(Some(mouse.position))
       IN  Handled(handle_mouse_button_press("Left", context), context)
    /\ mouse' = [mouse EXCEPT !.left_down = TRUE]
    /\ op' = "MouseButtonDown" /\ arg' = <<"Left">>
    /\ UNCHANGED <<is_scrolling, post_data, historyVars, canvas_old, view_trail, time_trail>>

MouseButtonUp ==
    /\ panicked = NoPanic
    /\ mouse.left_down
    /\ is_scrolling \/ editor.history.cursor < MaxStrokes
    /\ LET context == update_cursor_position(Some(mouse.position))
       IN  Handled(handle_mouse_button_release("Left", context), context)
    /\ mouse' = [mouse EXCEPT !.left_down = FALSE]
    /\ op' = "MouseButtonUp" /\ arg' = <<"Left">>
    /\ UNCHANGED <<is_scrolling, post_data, historyVars, canvas_old, view_trail, time_trail>>

WindowLeave ==
    /\ panicked = NoPanic
    \* no line is drawn to a cursor that is outside the window
    /\ LET context == update_cursor_position(None)
       IN  Handled(handle_cursor_movement(None, context, {}), context)
    /\ op' = "WindowLeave" /\ arg' = <<>>
    /\ UNCHANGED <<is_scrolling, mouse, post_data, historyVars, canvas_old, view_trail, time_trail>>

\* Space pressed: start_scrolling
KeyDownSpace ==
    /\ panicked = NoPanic
    /\ is_scrolling' = TRUE
    /\ op' = "KeyDown" /\ arg' = <<"Space">> /\ ret' = Unit /\ calls' = <<>>
    /\ UNCHANGED <<editor, panicked, post_data, pencil, draw_context, mouse,
                   historyVars, canvas_old, view_trail, time_trail>>

\* Space released: stop_scrolling
KeyUpSpace ==
    /\ panicked = NoPanic
    /\ is_scrolling' = FALSE
    /\ op' = "KeyUp" /\ arg' = <<"Space">> /\ ret' = Unit /\ calls' = <<>>
    /\ UNCHANGED <<editor, panicked, post_data, pencil, draw_context, mouse,
                   historyVars, canvas_old, view_trail, time_trail>>

\* Ctrl+Z pressed: hotkey::handle_undo
KeyDownCtrlZ ==
    /\ panicked = NoPanic
    /\ LET r == Editor_undo(editor)
       IN  /\ editor' = r.e
           /\ ret' = r.ret
           /\ panicked' = r.panic
    /\ op' = "KeyDown" /\ arg' = <<"Ctrl+Z">> /\ calls' = <<"undo">>
    /\ UNCHANGED <<post_data, pencil, draw_context, is_scrolling, mouse,
                   historyVars, canvas_old, view_trail, time_trail>>

\* Ctrl+Y pressed: hotkey::handle_redo
KeyDownCtrlY ==
    /\ panicked = NoPanic
    /\ LET r == Editor_redo(editor)
       IN  /\ editor' = r.e
           /\ ret' = r.ret
           /\ panicked' = r.panic
    /\ op' = "KeyDown" /\ arg' = <<"Ctrl+Y">> /\ calls' = <<"redo">>
    /\ UNCHANGED <<post_data, pencil, draw_context, is_scrolling, mouse,
                   historyVars, canvas_old, view_trail, time_trail>>

\* The wheel (scale_up and scale_down at the point under the mouse) is not
\* among the events: the scale of the application stays Times(1).
InitApp == InitEditor(2, 1)

NextApp ==
    \/ MouseMotion
    \/ MouseButtonDown
    \/ MouseButtonUp
    \/ WindowLeave
    \/ KeyDownSpace
    \/ KeyUpSpace
    \/ KeyDownCtrlZ
    \/ KeyDownCtrlY

SpecApp == InitApp /\ [][NextApp]_vars

(***************************************************************************)
(* The Canvas called directly (editor.canvas, with editor.shadow_data as   *)
(* the shadow): its accessors with coordinates inside the canvas, just     *)
(* outside it and far outside it, apply_diff with the diffs of             *)
(* CanvasDiffSamples, update_shadow_data and compare_shadow_data.          *)
(***************************************************************************)
\* a coordinate far outside every canvas
FarCoordinate == 2147483647
Coordinates(n) == (0..n) \cup {FarCoordinate}
CanvasColors == {Black, Amber}

\* the diffs of DiffSamples, a diff that names pixel 0 twice and a diff
\* that names a pixel outside the canvas
CanvasDiffSamples ==
    DiffSamples \cup
    {<<[index |-> 1, before |-> Amber, after |-> White]>>,
     <<[index |-> 0, before |-> White, after |-> Black],
       [index |-> 0, before |-> Black, after |-> Amber]>>,
     <<[index |-> 0, before |-> White, after |-> Black],
       [index |-> 2, before |-> White, after |-> Black]>>}

InitCanvas == Init

\* what no call on the Canvas changes
CanvasFrame ==
    /\ canvas_old' = editor.canvas
    /\ UNCHANGED <<post_data, historyVars, appVars, view_trail, time_trail>>

CanvasTryGetAt ==
    /\ panicked = NoPanic
    /\ \E x \in Coordinates(editor.canvas.width),
          y \in Coordinates(editor.canvas.height) :
          /\ ret' = Canvas_try_get_at(editor.canvas, x, y)
          /\ arg' = <<x, y>>
    /\ op' = "try_get_at"
    /\ UNCHANGED <<editor, panicked>>
    /\ CanvasFrame

CanvasGetAt ==
    /\ panicked = NoPanic
    /\ \E x \in Coordinates(editor.canvas.width),
          y \in Coordinates(editor.canvas.height) :
          LET r == Canvas_get_at(editor.canvas, x, y)
          IN  /\ ret' = r.ret
              /\ panicked' = r.panic
              /\ arg' = <<x, y>>
    /\ op' = "get_at"
    /\ UNCHANGED editor
    /\ CanvasFrame

CanvasTrySetAt ==
    /\ panicked = NoPanic
    /\ \E x \in Coordinates(editor.canvas.width),
          y \in Coordinates(editor.canvas.height), color \in CanvasColors :
          LET r == Canvas_try_set_at(editor.canvas, x, y, color)
          IN  /\ editor' = [editor EXCEPT !.canvas = r.canvas]
              /\ ret' = r.ret
              /\ arg' = <<x, y, color>>
    /\ op' = "try_set_at"
    /\ UNCHANGED panicked
    /\ CanvasFrame

CanvasSetAt ==
    /\ panicked = NoPanic
    /\ \E x \in Coordinates(editor.canvas.width),
          y \in Coordinates(editor.canvas.height), color \in CanvasColors :
          LET r == Canvas_set_at(editor.canvas, x, y, color)
          IN  /\ editor' = [editor EXCEPT !.canvas = r.canvas]
              /\ panicked' = r.panic
              /\ arg' = <<x, y, color>>
    /\ op' = "set_at" /\ ret' = Unit
    /\ CanvasFrame

CanvasApplyDiff ==
    /\ panicked = NoPanic
    /\ \E diff \in CanvasDiffSamples, direction \in {Normal, Reverse} :
          LET r == Canvas_apply_diff(editor.canvas, diff, direction)
          IN  /\ editor' = [editor EXCEPT !.canvas = r.canvas]
              /\ panicked' = r.panic
              /\ arg' = <<diff, direction>>
    /\ op' = "apply_diff" /\ ret' = Unit
    /\ CanvasFrame

CanvasUpdateShadowData ==
    /\ panicked = NoPanic
    /\ editor' = [editor EXCEPT !.shadow_data =
                     Canvas_update_shadow_data(editor.canvas, editor.shadow_data)]
    /\ op' = "update_shadow_data" /\ arg' = <<>> /\ ret' = Unit
    /\ UNCHANGED panicked
    /\ CanvasFrame

CanvasCompareShadowData ==
    /\ panicked = NoPanic
    /\ LET r == Canvas_compare_shadow_data(editor.canvas, editor.shadow_data)
       IN  /\ ret' = r.diff
           /\ panicked' = r.panic
    /\ op' = "compare_shadow_data" /\ arg' = <<>>
    /\ UNCHANGED editor
    /\ CanvasFrame

NextCanvas ==
    \/ CanvasTryGetAt
    \/ CanvasGetAt
    \/ CanvasTrySetAt
    \/ CanvasSetAt
    \/ CanvasApplyDiff
    \/ CanvasUpdateShadowData
    \/ CanvasCompareShadowData

SpecCanvas == InitCanvas /\ [][NextCanvas]_vars

(***************************************************************************)
(* The pixel buffer inside the Editor: the transactions of the Editor      *)
(* (Begin, End, Undo, Redo, TrySetAt as above) and, at any time, set_at    *)
(* and apply_diff on editor.canvas_mut().                                  *)
(***************************************************************************)
\* a diff that changes the first pixel, and a diff that changes the second
\* and then names a pixel outside the canvas
BufferDiffSamples ==
    {<<[index |-> 0, before |-> White, after |-> Black]>>,
     <<[index |-> 1, before |-> Black, after |-> White],
       [index |-> 2, before |-> White, after |-> Black]>>}

BufferSetAt ==
    /\ panicked = NoPanic
    /\ \E x \in 0..editor.canvas.width, y \in 0..editor.canvas.height,
          color \in Palette :
          LET r == Canvas_set_at(editor.canvas, x, y, color)
          IN  /\ editor' = [editor EXCEPT !.canvas = r.canvas]
              /\ panicked' = r.panic
              /\ arg' = <<x, y, color>>
    /\ op' = "set_at" /\ ret' = Unit
    /\ UNCHANGED <<post_data, historyVars, appVars, canvas_old, view_trail>>
    /\ time_trail' = <<>>

BufferApplyDiff ==
    /\ panicked = NoPanic
    /\ \E diff \in BufferDiffSamples, direction \in {Normal, Reverse} :
          LET r == Canvas_apply_diff(editor.canvas, diff, direction)
          IN  /\ editor' = [editor EXCEPT !.canvas = r.canvas]
              /\ panicked' = r.panic
              /\ arg' = <<diff, direction>>
    /\ op' = "apply_diff" /\ ret' = Unit
    /\ UNCHANGED <<post_data, historyVars, appVars, canvas_old, view_trail>>
    /\ time_trail' = <<>>

BufferEnd == editor.history.cursor < MaxStrokes /\ End

NextBuffer ==
    \/ Begin
    \/ BufferEnd
    \/ Undo
    \/ Redo
    \/ TrySetAt
    \/ BufferSetAt
    \/ BufferApplyDiff

SpecBuffer == Init /\ [][NextBuffer]_vars

(***************************************************************************)
(* The viewport of an Editor called directly: scroll, scale_up and         *)
(* scale_down in any order, with stationary points on the canvas, on its   *)
(* edge and off it.                                                        *)
(***************************************************************************)
ViewStationaryPoints ==
    {Point_new(FromInt(0), FromInt(0)), Point_new(FromInt(1), FromInt(1)),
     Point_new(FromInt(-1), FromInt(0)), Point_new(FromInt(1), FromInt(3))}
ViewScrollDeltas ==
    {<<FromInt(1), FromInt(-1)>>, <<FromInt(-1), FromInt(1)>>}

\* the scale and the center of an Editor
View(e) == [scale |-> e.scale, center |-> e.center]

\* the call being made goes to the head of the trail, the call before it
\* stays behind it
ViewFrame ==
    /\ view_trail' = <<[op |-> op', arg |-> arg', view |-> View(editor)]>>
                       \o SubSeq(view_trail, 1, IF view_trail = <<>> THEN 0 ELSE 1)
    /\ UNCHANGED <<post_data, historyVars, appVars, canvas_old, time_trail>>

InitView == Init

ViewScroll ==
    /\ panicked = NoPanic
    /\ \E d \in ViewScrollDeltas :
          /\ editor' = Editor_scroll(editor, d[1], d[2])
          /\ arg' = d
    /\ op' = "scroll" /\ ret' = Unit
    /\ UNCHANGED panicked
    /\ ViewFrame

ViewScaleUp ==
    /\ panicked = NoPanic
    /\ editor.scale < MaxZoom
    /\ \E p \in ViewStationaryPoints :
          LET r == Editor_scale_up(editor, p)
          IN  /\ editor' = r.e
              /\ ret' = r.ret
              /\ panicked' = r.panic
              /\ arg' = <<p>>
    /\ op' = "scale_up"
    /\ ViewFrame

ViewScaleDown ==
    /\ panicked = NoPanic
    /\ \E p \in ViewStationaryPoints :
          LET r == Editor_scale_down(editor, p)
          IN  /\ editor' = r.e
              /\ ret' = r.ret
              /\ panicked' = r.panic
              /\ arg' = <<p>>
    /\ op' = "scale_down"
    /\ ViewFrame

NextView ==
    \/ ViewScroll
    \/ ViewScaleUp
    \/ ViewScaleDown

SpecView == InitView /\ [][NextView]_vars

(***************************************************************************)
(* A HardLine drawn on a white canvas of 8 x 8 pixels, through a callback  *)
(* that calls try_set_at(x, y, black): HardLine::new(a, b, thickness),     *)
(* then draw.  The endpoints lie on and off the canvas, on whole and on    *)
(* half coordinates; the lines are those whose length is rational          *)
(* (along an axis, or along a 3-4-5 triangle), and those without length.   *)
(***************************************************************************)
LinePoints ==
    {Point_new(Rat(x, 2), Rat(y, 2)) :
        x \in {0, 1, 6, 7}, y \in {0, 1, 8, 9}}
    \cup {Point_new(FromInt(-2), FromInt(0)), Point_new(FromInt(-2), FromInt(3)),
          Point_new(FromInt(1), FromInt(-2)), Point_new(FromInt(4), FromInt(2))}
LineThicknesses == {FromInt(1), FromInt(2)}

\* the calls try_set_at(x, y, color) of the callback for the rows; a call
\* with an x of 2^31 or more, like one with any x that is the canvas width
\* or more, returns None in Canvas::calc_offset and writes nothing
RECURSIVE PutRows(_, _, _)
PutRows(c, rows, color) ==
    IF rows = <<>>
    THEN c
    ELSE LET row == Head(rows)
             pixels == IF row.y < 0
                       THEN {}
                       ELSE {<<x, row.y>> : x \in
                               {x \in 0..(c.width - 1) :
                                   ULeq(row.x_left, x) /\ ULeq(x, row.x_right)}}
         IN  PutRows(PutPixels(c, pixels, color), Tail(rows), color)

InitLine == InitEditor(8, 8)

LineNew ==
    /\ op = "new"
    /\ \E a \in LinePoints, b \in LinePoints, thickness \in LineThicknesses :
          /\ HypotIsRational(RSub(b.y, a.y), RSub(a.x, b.x))
          /\ arg' = <<a, b, thickness>>
    /\ op' = "HardLine::new" /\ ret' = Unit
    /\ UNCHANGED <<editor, panicked, post_data, historyVars, appVars,
                   canvas_old, view_trail, time_trail>>

LineDraw ==
    /\ op = "HardLine::new"
    /\ LET r == HardLine_draw(HardLine_new(arg[1], arg[2], arg[3]))
       IN  /\ editor' = [editor EXCEPT !.canvas = PutRows(@, r.rows, Black)]
           /\ ret' = r.rows
           /\ panicked' = r.panic
    /\ op' = "draw"
    /\ UNCHANGED <<arg, post_data, historyVars, appVars, canvas_old, view_trail, time_trail>>

NextLine ==
    \/ LineNew
    \/ LineDraw

SpecLine == InitLine /\ [][NextLine]_vars

(***************************************************************************)
(* The claims.                                                             *)
(***************************************************************************)
IsErr(r, e) == r.tag = "Err" /\ r.err = e

\* C2 (SpecHistory): after any sequence of undo(), redo() and record(diff)
\* on a History, 0 <= cursor <= diffs.len(), and no call has panicked:
\* neither the assertion of consistency_check nor the closure handed to
\* resize_with has fired.
C2_CursorWithinDiffs ==
    /\ 0 <= hist.cursor
    /\ hist.cursor <= Len(hist.diffs)
    /\ panicked = NoPanic

\* a record() that truncated the vector: the resize_with call shrank it
C2_Witness ==
    /\ op = "History_record"
    /\ hist_old.cursor < Len(hist_old.diffs)
    /\ hist_old.cursor > 0

\* C6 as claimed (SpecHistory): once a record() has discarded a redo tail,
\* every redo() returns None until another diff has been recorded and then
\* undone.
C6_RedoEmptyUntilRecordedAndUndone ==
    (op = "History_redo" /\ tail_phase \in {"discarded", "recorded"})
        => ret.tag = "None"

\* C6, amended (SpecHistory): record(d) called with cursor = c sets diffs to
\* the old diffs[0..c) followed by d and cursor to c + 1 = diffs.len(); and
\* after a record() every redo() returns None, and changes nothing, until
\* an undo() gives a diff back.
C6_RecordTruncatesAndAppends ==
    /\ op = "History_record" =>
          /\ hist.diffs = SubSeq(hist_old.diffs, 1, hist_old.cursor) \o arg
          /\ hist.cursor = hist_old.cursor + 1
          /\ hist.cursor = Len(hist.diffs)
          /\ panicked = NoPanic
    /\ (op = "History_redo" /\ fresh_record) =>
          /\ ret.tag = "None"
          /\ hist = hist_old

\* a redo() after a record() at cursor 0 that discarded a redo tail
C6_Witness ==
    /\ op = "History_redo"
    /\ fresh_record
    /\ tail_phase = "discarded"
    /\ ret.tag = "None"
    /\ Len(hist.diffs) = 1

\* C7 (SpecHistory): History.undo() with cursor = 0 returns None and leaves
\* the cursor; otherwise it decrements the cursor by one and returns the
\* diff at the new cursor position.
C7_HistoryUndo ==
    op = "History_undo" =>
        IF hist_old.cursor = 0
        THEN ret.tag = "None" /\ hist.cursor = 0
        ELSE /\ hist.cursor = hist_old.cursor - 1
             /\ ret.tag = "Some"
             /\ ret.val = hist_old.diffs[hist.cursor + 1]

\* an undo() from the top of two different diffs
C7_Witness ==
    /\ op = "History_undo"
    /\ ret.tag = "Some"
    /\ hist.cursor = 1
    /\ Len(hist.diffs) = 2
    /\ hist.diffs[1] # hist.diffs[2]

\* C8 (SpecHistory): History.redo() with cursor = diffs.len() returns None
\* and leaves the cursor; otherwise it returns the diff at the old cursor
\* position and increments the cursor by one.
C8_HistoryRedo ==
    op = "History_redo" =>
        IF hist_old.cursor = Len(hist_old.diffs)
        THEN ret.tag = "None" /\ hist.cursor = hist_old.cursor
        ELSE /\ ret.tag = "Some"
             /\ ret.val = hist_old.diffs[hist_old.cursor + 1]
             /\ hist.cursor = hist_old.cursor + 1

\* a redo() of the first of two different diffs
C8_Witness ==
    /\ op = "History_redo"
    /\ ret.tag = "Some"
    /\ hist.cursor = 1
    /\ Len(hist.diffs) = 2
    /\ hist.diffs[1] # hist.diffs[2]

\* the pixel data of a freshly constructed canvas of the editor's size
InitialData == Canvas_new(editor.canvas.width, editor.canvas.height).data

\* C1 (Spec): with no transaction open, whenever undo() has taken the cursor
\* back to 0 the pixel data is byte for byte what it was before the first
\* transaction, and whenever redo() has taken it to diffs.len() again the
\* data is byte for byte what it was after the last transaction; no call
\* has panicked.
C1_UndoRedoRoundTrip ==
    /\ panicked = NoPanic
    /\ ~editor.in_transaction =>
          /\ editor.history.cursor = 0 => editor.canvas.data = InitialData
          /\ editor.history.cursor = Len(editor.history.diffs)
                => editor.canvas.data = post_data

\* MaxDiffs transactions that each changed a pixel, all undone and now all
\* redone
C1_Witness ==
    /\ op = "redo"
    /\ ret.tag = "Ok"
    /\ ~editor.in_transaction
    /\ editor.history.cursor = MaxDiffs
    /\ Len(editor.history.diffs) = MaxDiffs
    /\ \A k \in 1..MaxDiffs : editor.history.diffs[k] # <<>>
    /\ editor.canvas.data # InitialData

\* C3 (Spec): undo() and redo() called while a transaction is open return
\* Err(TransactionInProgress), at a time edge too, and leave the pixel data,
\* the shadow data, the diffs and the cursor as they were.
C3_RefusedInTransaction ==
    [][(editor.in_transaction /\ op' \in {"undo", "redo"}) =>
          /\ IsErr(ret', TransactionInProgress)
          /\ panicked' = NoPanic
          /\ editor'.canvas.data = editor.canvas.data
          /\ editor'.shadow_data = editor.shadow_data
          /\ editor'.history.diffs = editor.history.diffs
          /\ editor'.history.cursor = editor.history.cursor]_vars

\* an undo() refused in an open transaction with nothing to undo
C3_Witness ==
    /\ op = "undo"
    /\ editor.in_transaction
    /\ IsErr(ret, TransactionInProgress)
    /\ editor.history.cursor = 0
    /\ editor.canvas.data # editor.shadow_data

\* C4 (Spec): with no transaction open, undo() returns
\* Err(AlreadyAtTimeEdge) exactly when the cursor is 0 and redo() returns it
\* exactly when the cursor is diffs.len(); then the pixel data and the
\* cursor are as they were.
C4_TimeEdge ==
    [][/\ (~editor.in_transaction /\ op' = "undo") =>
            /\ IsErr(ret', AlreadyAtTimeEdge) <=> editor.history.cursor = 0
            /\ IsErr(ret', AlreadyAtTimeEdge) =>
                  /\ editor'.canvas.data = editor.canvas.data
                  /\ editor'.history.cursor = editor.history.cursor
       /\ (~editor.in_transaction /\ op' = "redo") =>
            /\ IsErr(ret', AlreadyAtTimeEdge)
                  <=> editor.history.cursor = Len(editor.history.diffs)
            /\ IsErr(ret', AlreadyAtTimeEdge) =>
                  /\ editor'.canvas.data = editor.canvas.data
                  /\ editor'.history.cursor = editor.history.cursor]_vars

\* a redo() refused at the top of a history that holds diffs
C4_Witness ==
    /\ op = "redo"
    /\ ~editor.in_transaction
    /\ IsErr(ret, AlreadyAtTimeEdge)
    /\ editor.history.cursor = Len(editor.history.diffs)
    /\ editor.history.cursor > 0

\* C5 (Spec): while a transaction is open no call but end() (a pixel write,
\* undo, redo, scroll, scale_up, scale_down) changes the History's diffs or
\* cursor.
C5_HistoryFrozenInTransaction ==
    [][(editor.in_transaction /\ op' # "end") =>
          /\ editor'.history.diffs = editor.history.diffs
          /\ editor'.history.cursor = editor.history.cursor]_vars

\* a redo() in an open transaction that has changed a pixel, with a diff
\* to redo in the History
C5_Witness ==
    /\ op = "redo"
    /\ editor.in_transaction
    /\ editor.canvas.data # editor.shadow_data
    /\ editor.history.cursor < Len(editor.history.diffs)

\* C9 (Spec): end() records exactly one diff, whatever was written: the
\* cursor goes up by exactly one and is diffs.len(), the diffs below the old
\* cursor are as they were, and in_transaction is false.
C9_EndRecordsOneDiff ==
    [][op' = "end" =>
          /\ panicked' = NoPanic
          /\ editor'.history.cursor = editor.history.cursor + 1
          /\ Len(editor'.history.diffs) = editor'.history.cursor
          /\ SubSeq(editor'.history.diffs, 1, editor.history.cursor)
                = SubSeq(editor.history.diffs, 1, editor.history.cursor)
          /\ ~editor'.in_transaction]_vars

\* a second transaction that changed no pixel, recorded as an empty diff
\* of its own after a diff that is not empty
C9_Witness ==
    /\ op = "end"
    /\ editor.history.cursor = 2
    /\ editor.history.diffs[1] # <<>>
    /\ editor.history.diffs[2] = <<>>

\* the 4 x 4 data, all white but for pixel (1, 1), which is black
ScenarioData ==
    Canvas_try_set_at(Canvas_new(4, 4), 1, 1, Black).canvas.data
\* the diff of that change
ScenarioDiff == <<[index |-> 5, before |-> White, after |-> Black]>>

\* C10 (SpecScenario): on the white 4 x 4 canvas, begin(),
\* try_set_at(1, 1, black), end() leaves exactly one diff, of exactly one
\* delta: index 5, before white, after black; undo() then makes the data all
\* white again and redo() makes pixel (1, 1) black again, every other pixel
\* white throughout.
C10_Scenario ==
    /\ (op = "try_set_at" /\ arg = <<1, 1, Black>>) =>
          /\ editor.canvas.data = ScenarioData
          /\ Canvas_try_get_at(editor.canvas, 1, 1) = Some(Black)
          /\ \A x \in 0..3, y \in 0..3 :
                <<x, y>> # <<1, 1>> =>
                    Canvas_try_get_at(editor.canvas, x, y) = Some(White)
    /\ (op = "end" /\ editor.canvas.data = ScenarioData) =>
          /\ editor.history.diffs = <<ScenarioDiff>>
          /\ editor.history.cursor = 1
    /\ (op = "undo" /\ editor.history.diffs = <<ScenarioDiff>>) =>
          /\ ret.tag = "Ok"
          /\ editor.canvas.data = InitialData
    /\ (op = "redo" /\ editor.history.diffs = <<ScenarioDiff>>) =>
          /\ ret.tag = "Ok"
          /\ editor.canvas.data = ScenarioData

\* the end of the scenario
C10_Witness ==
    /\ op = "redo"
    /\ ret.tag = "Ok"
    /\ editor.history.diffs = <<ScenarioDiff>>
    /\ editor.canvas.data = ScenarioData

\* C11 as claimed (SpecApp): whatever events the application handles, it
\* never calls Editor.begin() while a transaction is open.
C11_BeginNeverNested ==
    [][calls' = <<"begin">> => ~editor.in_transaction]_vars

\* C12 (SpecCanvas): try_get_at(x, y) and try_set_at(x, y, c) return None
\* exactly when x >= width or y >= height; when they do not, the four bytes
\* they slice lie inside the data, so that no call panics; and a
\* try_set_at that returns None leaves the canvas as it was.
C12_NoneIffOutOfBounds ==
    op \in {"try_get_at", "try_set_at"} =>
        LET x == arg[1]
            y == arg[2]
            outside == x >= canvas_old.width \/ y >= canvas_old.height
        IN  /\ panicked = NoPanic
            /\ ret.tag = "None" <=> outside
            /\ ~outside =>
                  (y * canvas_old.width + x) * BPP + BPP <= Len(canvas_old.data)
            /\ (op = "try_set_at" /\ outside) => editor.canvas = canvas_old
            /\ op = "try_get_at" => editor.canvas = canvas_old

\* a try_set_at far outside a canvas that is no longer all white
C12_Witness ==
    /\ op = "try_set_at"
    /\ arg[1] = FarCoordinate
    /\ arg[2] = 0
    /\ ret.tag = "None"
    /\ editor.canvas.data # InitialData

\* C13 (SpecCanvas): a get_at(x, y) that follows a set_at(x, y, c) on a
\* pixel of the canvas returns exactly c, all four channels of it, and
\* neither call panics.
C13_SetThenGet ==
    [][(/\ op = "set_at"
        /\ panicked = NoPanic
        /\ op' = "get_at"
        /\ arg' = <<arg[1], arg[2]>>) =>
          /\ ret' = arg[3]
          /\ panicked' = NoPanic]_vars

\* get_at has read a color of four different channels from the second
\* pixel of the canvas that is one pixel wide
C13_Witness ==
    /\ op = "get_at"
    /\ arg = <<0, 1>>
    /\ ret = Amber
    /\ panicked = NoPanic

\* C14 (SpecBuffer): after any sequence of try_set_at, set_at, apply_diff,
\* begin, end, undo and redo, also one that ended in a panic, the data is
\* width * height * 4 bytes long and the width and the height are those the
\* canvas was constructed with.
C14_DataLength ==
    /\ Len(editor.canvas.data) = editor.canvas.width * editor.canvas.height * BPP
    /\ editor.canvas.width = canvas_old.width
    /\ editor.canvas.height = canvas_old.height

\* a transaction that changed pixels, and pixels written since with no
\* transaction open
C14_Witness ==
    /\ op \in {"set_at", "apply_diff"}
    /\ ~editor.in_transaction
    /\ editor.history.cursor = 1
    /\ editor.history.diffs[1] # <<>>
    /\ editor.canvas.data # post_data

\* the color of pixel number index of the canvas c
PixelAt(c, index) == color_from_slice(Slice(c.data, index * BPP, index * BPP + BPP))

\* every delta of the diff names a pixel of c whose color is the one that
\* applying the diff in the direction is to replace: the delta's "before"
\* for Normal, its "after" for Reverse
Replaces(c, diff, direction) ==
    \A k \in 1..Len(diff) :
        /\ diff[k].index < Canvas_area(c)
        /\ PixelAt(c, diff[k].index) =
              IF direction = Normal THEN diff[k].before ELSE diff[k].after

\* two calls of apply_diff in a row, neither of which panicked
TwoApplications ==
    /\ op = "apply_diff"
    /\ panicked = NoPanic
    /\ op' = "apply_diff"
    /\ panicked' = NoPanic

\* C15 as claimed (SpecCanvas): for every buffer state and every diff,
\* apply_diff in one direction and then in the other restores the buffer
\* to what it was before the first of the two.
C15_OppositeDirectionsRestore ==
    [][(/\ TwoApplications
        /\ arg'[1] = arg[1]
        /\ arg'[2] # arg[2]) => editor'.canvas = canvas_old]_vars

\* C15, amended (SpecCanvas): apply_diff in one direction and then in the
\* other restores the buffer to what it was before the first of the two
\* when every delta of the diff names a pixel that had, before the first,
\* the color the first replaces ("before" when Normal goes first, "after"
\* when Reverse does), as the diff that compare_shadow_data computes has.
C15_FittingDiffRestores ==
    [][(/\ TwoApplications
        /\ arg'[1] = arg[1]
        /\ arg'[2] # arg[2]
        /\ Replaces(canvas_old, arg[1], arg[2])) =>
            editor'.canvas = canvas_old]_vars

\* the diff of two deltas applied in Reverse to the buffer that its
\* application in Normal to (black, white) had left
C15_Witness ==
    /\ op = "apply_diff"
    /\ panicked = NoPanic
    /\ Len(arg[1]) = 2
    /\ arg[2] = Reverse
    /\ Replaces(editor.canvas, arg[1], Normal)
    /\ Replaces(canvas_old, arg[1], Reverse)
    /\ editor.canvas # canvas_old

\* C16 (SpecCanvas): apply_diff with the diff and the direction of the
\* apply_diff just before it changes nothing: applying twice gives the
\* buffer that applying once gave.
C16_ApplyDiffIdempotent ==
    [][(TwoApplications /\ arg' = arg) => editor'.canvas = editor.canvas]_vars

\* the diff that names pixel 0 twice has been applied in Normal to the
\* buffer that it leaves, and has left the buffer as it was
C16_Witness ==
    /\ op = "apply_diff"
    /\ panicked = NoPanic
    /\ Len(arg[1]) = 2
    /\ arg[1][1].index = arg[1][2].index
    /\ arg[2] = Normal
    /\ PixelAt(canvas_old, 0) = arg[1][2].after
    /\ editor.canvas = canvas_old

\* the shadow buffer read as the pixels of a canvas
ShadowCanvas == [editor.canvas EXCEPT !.data = editor.shadow_data]

\* C17 (SpecCanvas): the diff compare_shadow_data returns has a delta for
\* pixel i exactly when the shadow color of i differs from the live color of
\* i; each delta's before is the shadow color and its after the live color
\* of its pixel; the indices of the deltas are strictly ascending.
C17_CompareShadowData ==
    (op = "compare_shadow_data" /\ panicked = NoPanic) =>
        /\ \A i \in 0..(Canvas_area(editor.canvas) - 1) :
              (\E k \in 1..Len(ret) : ret[k].index = i)
                  <=> PixelAt(ShadowCanvas, i) # PixelAt(editor.canvas, i)
        /\ \A k \in 1..Len(ret) :
              /\ ret[k].index < Canvas_area(editor.canvas)
              /\ ret[k].before = PixelAt(ShadowCanvas, ret[k].index)
              /\ ret[k].after = PixelAt(editor.canvas, ret[k].index)
        /\ \A k \in 1..(Len(ret) - 1) : ret[k].index < ret[k + 1].index

\* compare_shadow_data has returned a delta for each of two pixels, against
\* a shadow that update_shadow_data took from a painted buffer
C17_Witness ==
    /\ op = "compare_shadow_data"
    /\ panicked = NoPanic
    /\ Len(ret) = 2
    /\ editor.shadow_data # InitialData
    /\ ret[1].before # White

\* C18 (Spec): a scale_up call returns Some(Times(n + 1)) and makes that the
\* scale, where Times(n) was the scale; a scale_down call that returns
\* Some(s) has s = Times(n - 1) and makes that the scale, one that returns
\* None leaves the scale; neither panics (no unreachable!() arm is taken),
\* and the scale is Times(n) with n >= 1 before and after every call.
C18_ScaleStepsByOne ==
    [][/\ editor.scale >= 1
       /\ editor'.scale >= 1
       /\ op' = "scale_up" =>
             /\ panicked' = NoPanic
             /\ ret' = Some(editor.scale + 1)
             /\ editor'.scale = editor.scale + 1
       /\ op' = "scale_down" =>
             /\ panicked' = NoPanic
             /\ ret'.tag = "Some" =>
                   /\ ret'.val = editor.scale - 1
                   /\ editor'.scale = editor.scale - 1
             /\ ret'.tag # "Some" => editor'.scale = editor.scale]_vars

\* scale_down has returned Some(Times(1)): the scale was stepped up to
\* Times(2) and is Times(1) again
C18_Witness ==
    /\ op = "scale_down"
    /\ ret = Some(1)
    /\ editor.scale = 1
    /\ panicked = NoPanic

\* C19 (SpecView): a scale_down call made when the scale is Times(1) returns
\* None and leaves the scale and the center as they were, whatever the
\* stationary point; it does not panic.
C19_ScaleDownAtFloor ==
    (view_trail # <<>> /\ view_trail[1].op = "scale_down"
         /\ view_trail[1].view.scale = 1) =>
        /\ ret = None
        /\ View(editor) = view_trail[1].view
        /\ panicked = NoPanic

\* scale_down has been called at Times(1) with a stationary point off the
\* canvas, the center scrolled away from the middle of the canvas
C19_Witness ==
    /\ view_trail # <<>>
    /\ view_trail[1].op = "scale_down"
    /\ view_trail[1].view.scale = 1
    /\ arg = <<Point_new(FromInt(-1), FromInt(0))>>
    /\ editor.center # Editor_new(editor.canvas.width, editor.canvas.height).center
    /\ ret = None

\* scale_down(p) has been called right after scale_up(p), with the same p
UpThenDown ==
    /\ Len(view_trail) = 2
    /\ view_trail[2].op = "scale_up"
    /\ view_trail[1].op = "scale_down"
    /\ view_trail[1].arg = view_trail[2].arg
    /\ panicked = NoPanic

\* the point lies in [0, width] x [0, height] of the canvas
InCanvasBounds(point, c) ==
    /\ RLeq(FromInt(0), point.x) /\ RLeq(point.x, FromInt(c.width))
    /\ RLeq(FromInt(0), point.y) /\ RLeq(point.y, FromInt(c.height))

\* C20 as claimed (SpecView): from any scale and any center, scale_up(p)
\* followed by scale_down(p) leaves the scale and the center as they were
\* before the scale_up.
C20_UpThenDownRestores ==
    UpThenDown => View(editor) = view_trail[2].view

\* C20 amended (SpecView): when the stationary point p and the center both
\* lie in [0, width] x [0, height], scale_up(p) followed by scale_down(p)
\* leaves the scale and the center as they were before the scale_up; the
\* scale is restored whatever p and the center are.
C20_UpThenDownRestoresInBounds ==
    UpThenDown =>
        /\ editor.scale = view_trail[2].view.scale
        /\ (/\ InCanvasBounds(view_trail[2].arg[1], editor.canvas)
            /\ InCanvasBounds(view_trail[2].view.center, editor.canvas))
               => editor.center = view_trail[2].view.center

\* scale_up(p) then scale_down(p) have been called at Times(2), with p on
\* the canvas and a center on the canvas that is neither p nor the middle
\* of the canvas, and the scale_up has moved the center
C20_Witness ==
    /\ UpThenDown
    /\ view_trail[2].view.scale = 2
    /\ InCanvasBounds(view_trail[2].arg[1], editor.canvas)
    /\ InCanvasBounds(view_trail[2].view.center, editor.canvas)
    /\ view_trail[2].view.center # view_trail[2].arg[1]
    /\ view_trail[2].view.center
          # Editor_new(editor.canvas.width, editor.canvas.height).center
    /\ view_trail[1].view.center # view_trail[2].view.center

\* C21 (SpecView): after any sequence of scroll, scale_up and scale_down
\* calls the center lies in [0, width] x [0, height] of the canvas, and a
\* scroll(dx, dy) call leaves each coordinate of the center at the sum of
\* the old coordinate and its delta, clamped into [0, that axis's canvas
\* dimension].
C21_CenterInCanvas ==
    /\ InCanvasBounds(editor.center, editor.canvas)
    /\ (view_trail # <<>> /\ view_trail[1].op = "scroll") =>
          LET old == view_trail[1].view.center
          IN  /\ editor.center.x =
                    Clamp(RAdd(old.x, arg[1]), FromInt(editor.canvas.width))
              /\ editor.center.y =
                    Clamp(RAdd(old.y, arg[2]), FromInt(editor.canvas.height))

\* scale_up or scale_down has just changed the scale
ZoomStep ==
    /\ view_trail # <<>>
    /\ view_trail[1].op \in {"scale_up", "scale_down"}
    /\ ret.tag = "Some"
    /\ panicked = NoPanic

\* the Editor with the scale and the center it had before the last call
EditorBefore ==
    [editor EXCEPT !.scale = view_trail[1].view.scale,
                   !.center = view_trail[1].view.center]

\* the point of the screen that translate_to_image_point takes to the point
\* p of the canvas
ScreenProjection(e, p, screen) ==
    LET o == Editor_get_left_top_offset_i32(e, screen[1], screen[2])
    IN  Point_new(RAdd(Scale_apply(e.scale, p.x), FromInt(o[1])),
                  RAdd(Scale_apply(e.scale, p.y), FromInt(o[2])))

\* what translate_to_image_point makes, after the zoom step, of the point
\* of the screen that showed the stationary point before it
AnchorAfterZoom ==
    Editor_translate_to_image_point(editor,
        ScreenProjection(EditorBefore, arg[1], ScreenSize),
        ScreenSize[1], ScreenSize[2])

\* the center that rescale computes before it clamps it
CenterBeforeClamp ==
    LET old == view_trail[1].view
        p == arg[1]
        off(t, c) == Scale_apply(old.scale,
                                 Scale_unapply(editor.scale, RSub(t, c)))
    IN  Point_new(RSub(p.x, off(p.x, old.center.x)),
                  RSub(p.y, off(p.y, old.center.y)))

\* C22 as claimed (SpecView): after a zoom step with stationary point p,
\* translate_to_image_point takes the point of the screen that showed p
\* before the step to p again.
C22_AnchoredZoom ==
    ZoomStep => AnchorAfterZoom = arg[1]

\* |t - u| * scale <= 1: t and u are at most one pixel of the screen apart
WithinOneScreenPixel(t, u, scale) ==
    LET d == Scale_apply(scale, RSub(t, u))
    IN  RLeq(FromInt(-1), d) /\ RLeq(d, FromInt(1))

\* C22 amended (SpecView): after a zoom step with stationary point p in
\* which rescale's clamp has not moved the new center,
\* translate_to_image_point takes the point of the screen that showed p
\* before the step to a point at most one screen pixel from p on each axis
\* (the left-top offset is rounded to whole pixels before and after).
C22_AnchoredZoomUnclamped ==
    (ZoomStep /\ InCanvasBounds(CenterBeforeClamp, editor.canvas)) =>
        /\ WithinOneScreenPixel(AnchorAfterZoom.x, arg[1].x, editor.scale)
        /\ WithinOneScreenPixel(AnchorAfterZoom.y, arg[1].y, editor.scale)

\* scale_down has gone from Times(3) to Times(2) around the point (1, 1),
\* has moved the center without clamping it, and has kept the point in place
C22_Witness ==
    /\ ZoomStep
    /\ op = "scale_down"
    /\ editor.scale = 2
    /\ arg = <<Point_new(FromInt(1), FromInt(1))>>
    /\ InCanvasBounds(CenterBeforeClamp, editor.canvas)
    /\ editor.center # view_trail[1].view.center
    /\ AnchorAfterZoom = arg[1]

\* the pixels that the rows pass to the callback: the rows of one draw have
\* different y and none is empty, so that two draws pass the same pixels
\* exactly when they make the same rows
PixelsOf(rows) == {rows[k] : k \in 1..Len(rows)}

\* C23 (SpecLine): HardLine::new(a, b, t).draw passes to the callback
\* exactly the pixels that HardLine::new(b, a, t).draw passes, and panics
\* exactly when that one does.
C23_DrawSymmetric ==
    op = "draw" =>
        LET there == HardLine_draw(HardLine_new(arg[1], arg[2], arg[3]))
            back == HardLine_draw(HardLine_new(arg[2], arg[1], arg[3]))
        IN  /\ PixelsOf(there.rows) = PixelsOf(back.rows)
            /\ there.panic = back.panic

\* the pixels of the canvas that are black
BlackPixels ==
    {q \in (0..(editor.canvas.width - 1)) \X (0..(editor.canvas.height - 1)) :
        PixelAt(editor.canvas, q[2] * editor.canvas.width + q[1]) = Black}

\* C24 (SpecLine): the line from (0, 0) to (3, 0) with thickness 1, drawn on
\* the white canvas of 8 x 8 pixels through a callback that calls
\* try_set_at(x, y, black), leaves exactly the pixels (0, 0), (1, 0), (2, 0)
\* and (3, 0) black and the other pixels white.
C24_FourPixels ==
    (/\ op = "draw"
     /\ arg = <<Point_new(FromInt(0), FromInt(0)),
                Point_new(FromInt(3), FromInt(0)), FromInt(1)>>) =>
        /\ panicked = NoPanic
        /\ BlackPixels = {<<0, 0>>, <<1, 0>>, <<2, 0>>, <<3, 0>>}
        /\ \A i \in 0..(Canvas_area(editor.canvas) - 1) :
              PixelAt(editor.canvas, i) \in {Black, White}

\* C25 (SpecLine): drawing a line whose ends are the same point, with a
\* thickness that is not zero, does not panic and passes at least one pixel
\* to the callback.
C25_ZeroLengthDraws ==
    (op = "draw" /\ arg[1] = arg[2]) =>
        /\ panicked = NoPanic
        /\ ret # <<>>

\* C26 (SpecLine), for the rows: draw calls the callback for no row that it
\* computed as a negative y; such a row is skipped, not passed on as the
\* u32 2^32 + y (written here as y itself).
C26_NegativeSkipped ==
    op = "draw" => \A k \in 1..Len(ret) : ret[k].y >= 0

\* C27 (SpecApp): the cursor position an event leaves in the DrawContext is
\* OutsideWindow exactly when the event gave no position (the window was
\* left); otherwise it carries the point that translate_to_image_point
\* makes of the middle of the mouse's pixel, and is WithinCanvas exactly
\* when 0 <= x < width and 0 <= y < height hold of that point, and
\* OutsideCanvas when they do not.
C27_CursorClassified ==
    [][LET cp == draw_context'.cursor_position
           tp == Editor_translate_to_image_point(editor,
                     Point_new(RAdd(FromInt(mouse'.position[1]), Rat(1, 2)),
                               RAdd(FromInt(mouse'.position[2]), Rat(1, 2))),
                     ScreenSize[1], ScreenSize[2])
           inside == /\ RLeq(FromInt(0), tp.x)
                     /\ RLess(tp.x, FromInt(editor.canvas.width))
                     /\ RLeq(FromInt(0), tp.y)
                     /\ RLess(tp.y, FromInt(editor.canvas.height))
       IN  /\ op' = "WindowLeave" => cp = OutsideWindow
           /\ op' \in {"MouseMotion", "MouseButtonDown", "MouseButtonUp"} =>
                 /\ cp.tag \in {"WithinCanvas", "OutsideCanvas"}
                 /\ cp.point = tp
                 /\ cp.tag = "WithinCanvas" <=> inside]_vars

\* the mouse has moved to a pixel of the window beside the canvas
C27_Witness ==
    /\ op = "MouseMotion"
    /\ draw_context.cursor_position.tag = "OutsideCanvas"
    /\ RLess(draw_context.cursor_position.point.x, FromInt(0))

\* C28 (Spec): an end() that comes right after its begin() records the
\* empty diff as one more step of the history: the cursor goes up by one,
\* the diffs behind the old cursor (the redo tail) are gone, the diffs
\* before it stay; an undo() right after the end() of an empty diff returns
\* Ok, takes the cursor back by one and leaves the pixel buffer as it was.
C28_EmptyTransaction ==
    [][/\ (op = "begin" /\ op' = "end") =>
             /\ panicked' = NoPanic
             /\ editor'.history.cursor = editor.history.cursor + 1
             /\ Len(editor'.history.diffs) = editor'.history.cursor
             /\ editor'.history.diffs[editor'.history.cursor] = <<>>
             /\ SubSeq(editor'.history.diffs, 1, editor.history.cursor)
                   = SubSeq(editor.history.diffs, 1, editor.history.cursor)
             /\ editor'.canvas = editor.canvas
       /\ (/\ op = "end" /\ panicked = NoPanic
           /\ editor.history.diffs[editor.history.cursor] = <<>>
           /\ op' = "undo") =>
             /\ ret' = Ok
             /\ panicked' = NoPanic
             /\ editor'.canvas = editor.canvas
             /\ editor'.history.cursor = editor.history.cursor - 1]_vars

\* a painted stroke and then an empty transaction have been recorded, and
\* undo() has gone back over the empty diff: the buffer is still painted
C28_Witness ==
    /\ op = "undo"
    /\ ret = Ok
    /\ editor.history.cursor = 1
    /\ Len(editor.history.diffs) = 2
    /\ editor.history.diffs[1] # <<>>
    /\ editor.history.diffs[2] = <<>>
    /\ editor.canvas.data # InitialData

\* C29 (Spec): begin() leaves the shadow data byte for byte equal to the
\* pixel data and in_transaction true, and leaves the canvas, the history,
\* the scale and the center as they were; before and after every call the
\* shadow data is as long as the pixel data.
C29_BeginSnapshots ==
    [][/\ Len(editor.shadow_data) = Len(editor.canvas.data)
       /\ Len(editor'.shadow_data) = Len(editor'.canvas.data)
       /\ op' = "begin" =>
             /\ editor'.shadow_data = editor'.canvas.data
             /\ editor'.in_transaction
             /\ editor'.canvas = editor.canvas
             /\ editor'.history = editor.history
             /\ editor'.scale = editor.scale
             /\ editor'.center = editor.center
             /\ panicked' = NoPanic]_vars

\* begin() has been called on a painted buffer, one diff recorded, with the
\* view zoomed in and the center moved
C29_Witness ==
    /\ op = "begin"
    /\ editor.in_transaction
    /\ editor.canvas.data # InitialData
    /\ editor.shadow_data = editor.canvas.data
    /\ editor.history.cursor = 1
    /\ editor.scale = 2
    /\ editor.center # Editor_new(editor.canvas.width, editor.canvas.height).center

\* C30 (SpecApp): when the Pencil is told of a cursor movement
\* (on_cursor_move; the application is not scrolling), it writes no pixel
\* and only sets last_point to the current position if the previous
\* position or the current one is OutsideWindow, and it draws (the two end
\* pixels and the line) if both are inside the window; an Inactive Pencil
\* writes nothing.
C30_PencilSkipsOffWindow ==
    [][(op' \in {"MouseMotion", "WindowLeave"} /\ ~is_scrolling) =>
          LET cur == draw_context'.cursor_position
          IN  IF pencil.tag = "Inactive"
              THEN editor' = editor /\ pencil' = pencil /\ calls' = <<>>
              ELSE IF \/ pencil.last_point.tag = "OutsideWindow"
                      \/ cur.tag = "OutsideWindow"
              THEN editor' = editor /\ calls' = <<>> /\ pencil' = Active(cur)
              ELSE calls' = <<"draw">> /\ panicked' = NoPanic]_vars

\* the cursor has come back into the window during a stroke: the Pencil has
\* taken the position as last_point and has drawn nothing
C30_Witness ==
    /\ op = "MouseMotion"
    /\ ~is_scrolling
    /\ editor.in_transaction
    /\ pencil.tag = "Active"
    /\ pencil.last_point = draw_context.cursor_position
    /\ pencil.last_point.tag = "OutsideCanvas"
    /\ calls = <<>>

\* C31 (SpecCanvas): a try_set_at(x, y, c) that returns Some writes the
\* four bytes at offset (y * width + x) * 4, in the order blue, green, red,
\* alpha, and leaves every other byte of the data as it was; try_get_at
\* leaves the data as it was.
C31_SetWritesFourBytes ==
    /\ (op = "try_set_at" /\ ret.tag = "Some") =>
          LET offset == (arg[2] * canvas_old.width + arg[1]) * BPP
              c == arg[3]
          IN  /\ Len(editor.canvas.data) = Len(canvas_old.data)
              /\ offset + BPP <= Len(canvas_old.data)
              /\ editor.canvas.data[offset + 1] = c.b
              /\ editor.canvas.data[offset + 2] = c.g
              /\ editor.canvas.data[offset + 3] = c.r
              /\ editor.canvas.data[offset + 4] = c.a
              /\ \A i \in 1..Len(canvas_old.data) :
                    (i <= offset \/ i > offset + BPP) =>
                        editor.canvas.data[i] = canvas_old.data[i]
    /\ op = "try_get_at" => editor.canvas.data = canvas_old.data

\* try_set_at has written a color of four different channels to the last
\* pixel of a canvas whose first pixel is black
C31_Witness ==
    /\ op = "try_set_at"
    /\ ret.tag = "Some"
    /\ arg[3] = Amber
    /\ arg[1] + arg[2] = 1
    /\ PixelAt(canvas_old, 0) = Black
    /\ PixelAt(canvas_old, 1) = White

\* the data after the diffs k, k + 1, ... up to cursor have been applied
\* to it in the Normal direction, in that order
RECURSIVE Replay(_, _, _, _)
Replay(data, diffs, k, cursor) ==
    IF k > cursor
    THEN data
    ELSE Replay(ApplyFrom(data, diffs[k], Normal, 1).data, diffs, k + 1, cursor)

\* C32 (Spec): whenever no transaction is open, after any sequence of
\* bracketed transactions, undo() and redo() calls, the pixel data is the
\* all-white data of the construction with the diffs diffs[0..cursor) of
\* the history applied in the Normal direction, in order.
C32_BufferIsReplay ==
    ~editor.in_transaction =>
        /\ editor.history.cursor <= Len(editor.history.diffs)
        /\ editor.canvas.data =
              Replay(InitialData, editor.history.diffs, 1, editor.history.cursor)

\* two transactions, the first of which changed both pixels, and the second
\* undone: the cursor is in the middle of the history
C32_Witness ==
    /\ op = "undo"
    /\ ret.tag = "Ok"
    /\ ~editor.in_transaction
    /\ editor.history.cursor = 1
    /\ Len(editor.history.diffs) = 2
    /\ Len(editor.history.diffs[1]) = 2
    /\ editor.history.diffs[2] # <<>>

\* C34 (SpecHistory): History.undo() and History.redo() leave the diffs
\* sequence as it was, its length and every diff of it, and move the cursor
\* by one at most; a call that changes the diffs sequence is a record().
C34_UndoRedoKeepDiffs ==
    [][/\ op' \in {"History_undo", "History_redo"} =>
            /\ hist'.diffs = hist.diffs
            /\ hist'.cursor - hist.cursor \in {-1, 0, 1}
       /\ hist'.diffs # hist.diffs => op' = "History_record"]_vars

\* the second of two undo() calls that each gave a diff back: both diffs
\* are still there, beyond the cursor
C34_Witness ==
    /\ op = "History_undo"
    /\ ret.tag = "Some"
    /\ hist_old.cursor = 1
    /\ hist.cursor = 0
    /\ Len(hist.diffs) = 2
    /\ hist.diffs = hist_old.diffs

C35_ActiveIffInTransaction ==
    [][/\ pencil.tag = "Active" <=> editor.in_transaction
       /\ pencil'.tag = "Active" <=> editor'.in_transaction
       /\ calls' = <<"draw">> =>
             editor.in_transaction /\ editor'.in_transaction]_vars

\* the Pencil has drawn during a stroke and has changed a pixel
C35_Witness ==
    /\ op = "MouseMotion"
    /\ calls = <<"draw">>
    /\ pencil.tag = "Active"
    /\ editor.in_transaction
    /\ editor.canvas.data # editor.shadow_data

\* C36 as claimed (SpecApp): after the application has handled a left
\* MouseButtonUp event the Editor is not in a transaction, whatever Space
\* presses and releases, cursor moves and window-leave events come between.
C36_ReleaseClosesTransaction ==
    op = "MouseButtonUp" => ~editor.in_transaction

\* C37 as claimed (SpecApp): whatever events the application handles,
\* Editor.end() is called only while a transaction is open.
C37_EndOnlyInTransaction ==
    [][calls' = <<"end">> => editor.in_transaction]_vars

\* C38 (SpecBuffer): every delta of every diff in the Editor's history
\* names a pixel of the canvas (index < width * height) and has before #
\* after; and no undo() and no redo() of the Editor panics: the apply_diff
\* they call slices inside the pixel data.
C38_StoredDeltasFit ==
    /\ \A k \in 1..Len(editor.history.diffs) :
          \A j \in 1..Len(editor.history.diffs[k]) :
             LET delta == editor.history.diffs[k][j]
             IN  /\ delta.index < Canvas_area(editor.canvas)
                 /\ delta.index * BPP + BPP <= Len(editor.canvas.data)
                 /\ delta.before # delta.after
    /\ op \in {"undo", "redo"} => panicked = NoPanic

\* redo() has applied a diff of two deltas again, the last pixel of the
\* canvas among them
C38_Witness ==
    /\ op = "redo"
    /\ ret.tag = "Ok"
    /\ editor.history.cursor = 1
    /\ Len(editor.history.diffs[1]) = 2
    /\ editor.history.diffs[1][2].index = Canvas_area(editor.canvas) - 1
    /\ PixelAt(editor.canvas, 1) = editor.history.diffs[1][2].after

=============================================================================
